---- MODULE Spec2Model ----
(***************************************************************************)
(* Model of the SSH connection manager: the Connection record and its     *)
(* text mapping (core/connection.py), the ConfigManager store and its      *)
(* initialisation of the primary SSH config (core/config_manager.py).      *)
(*                                                                         *)
(* Text is a Python string, modelled as a sequence of atoms.  An atom is   *)
(* either one special character (" ", "\n", ":", "/", "#", "{", "}") or an *)
(* opaque run of other characters (a word, a number, a keyword, a fixed    *)
(* phrase).  String equality is sequence equality.                         *)
(***************************************************************************)
EXTENDS Integers, Sequences, FiniteSets, TLC

VARIABLES
    rec,        \* SpecConn: the Connection under test
    text,       \* SpecConn: rec.to_ssh_config(), empty before Serialize
    parsed,     \* SpecConn: result of Connection.from_ssh_config(text, ...)
    errors,     \* SpecConn: result of rec.validate(), empty before Validate
    cpc,        \* SpecConn: which steps have run
    sshDir,     \* whether ~/.ssh exists
    sshConfig,  \* ~/.ssh/config: [exists, content]
    backup,     \* ~/.ssh/config.backup: [exists, content]
    dirs,       \* the directories that exist, as paths relative to base_path
    files,      \* the .conf files: <<directory path, name>> -> content
    result,     \* SpecInit: what the last initialize() returned
    orig,       \* SpecInit: ~/.ssh/config as it was before the first call
    initCalls,  \* SpecInit: number of initialize() calls made
    op,         \* SpecStore: the last store operation and its outcome
    writers     \* SpecWriters: where each store instance is in its save

connVars == <<rec, text, parsed, errors, cpc>>
sshVars == <<sshDir, sshConfig, backup>>
fsVars == <<dirs, files>>
initVars == <<result, orig, initCalls>>
vars == <<rec, text, parsed, errors, cpc, sshDir, sshConfig, backup, dirs, files,
          result, orig, initCalls, op, writers>>

\* ------------------------------------------------------------------ bounds

MaxFwd == 2
MaxCfgLines == 2
MaxInitCalls == 3
MaxFiles == 2

\* ------------------------------------------------------- Python str helpers

NL == "\n"
SP == " "

IsSpace(a) == a \in {SP, NL}

RECURSIVE LStrip(_)
LStrip(s) == IF s # <<>> /\ IsSpace(Head(s)) THEN LStrip(Tail(s)) ELSE s

RECURSIVE RStrip(_)
RStrip(s) ==
    IF s # <<>> /\ IsSpace(s[Len(s)]) THEN RStrip(SubSeq(s, 1, Len(s) - 1)) ELSE s

\* str.strip()
Strip(s) == RStrip(LStrip(s))

\* str.startswith(p)
StartsWith(s, p) == Len(s) >= Len(p) /\ SubSeq(s, 1, Len(p)) = p

\* str.endswith(p)
EndsWith(s, p) == Len(s) >= Len(p) /\ SubSeq(s, Len(s) - Len(p) + 1, Len(s)) = p

\* `p in s` for strings
Contains(s, p) == \E i \in 1..(Len(s) - Len(p) + 1) : SubSeq(s, i, i + Len(p) - 1) = p

\* index of the first occurrence of p in s at or after position i, 0 if none
FindFrom(s, p, i) ==
    LET hits == {j \in i..(Len(s) - Len(p) + 1) : SubSeq(s, j, j + Len(p) - 1) = p}
    IN  IF hits = {} THEN 0 ELSE CHOOSE j \in hits : \A k \in hits : j <= k

\* str.split(sep): the pieces between the occurrences of sep (never empty list)
RECURSIVE Split(_, _)
Split(s, sep) ==
    LET i == FindFrom(s, sep, 1)
    IN  IF i = 0 THEN <<s>>
        ELSE <<SubSeq(s, 1, i - 1)>> \o Split(SubSeq(s, i + Len(sep), Len(s)), sep)

\* str.split(): whitespace-separated tokens, empty ones dropped
RECURSIVE SplitWS(_)
SplitWS(s) ==
    LET t == LStrip(s)
        RECURSIVE WordEnd(_)
        WordEnd(i) == IF i > Len(t) \/ IsSpace(t[i]) THEN i - 1 ELSE WordEnd(i + 1)
    IN  IF t = <<>> THEN <<>>
        ELSE LET e == WordEnd(1)
             IN  <<SubSeq(t, 1, e)>> \o SplitWS(SubSeq(t, e + 1, Len(t)))

\* "\n".join(lines)
RECURSIVE JoinNL(_)
JoinNL(lines) ==
    IF lines = <<>> THEN <<>>
    ELSE IF Len(lines) = 1 THEN lines[1]
    ELSE lines[1] \o <<NL>> \o JoinNL(Tail(lines))

\* The integers int() and str() are exercised on.
IntDomain == {0, 1, 22, 80, 2222, 8080, 65535, 65536, 70000}

\* str(n) / f"{n}" for an int
IntStr(n) == <<ToString(n)>>

\* int(s) for a stripped token: [ok, val]; ok = FALSE is Python's ValueError
IntOf(s) ==
    IF \E n \in IntDomain : IntStr(n) = s
    THEN [ok |-> TRUE, val |-> CHOOSE n \in IntDomain : IntStr(n) = s]
    ELSE [ok |-> FALSE, val |-> 0]

\* --------------------------------------------------- core/connection.py

\* Atoms that consist only of characters of [a-zA-Z0-9_-].
WordAtoms == {"db1", "A", "B", "my", "host", "u", "admin", "-copy", "bastion",
              "work", "personal", "db", "etc", "production", "localhost", "1",
              "2", "3", "4", "5"}

MetaPrefix == "# SSH Manager Metadata: "

\* Atoms whose first character is '#'.
HashAtoms == {"#", MetaPrefix}

Indent == <<SP, SP, SP, SP>>

\* json.dumps({"color": tag}) for a tag that is one plain word
JsonDumpsColor(tag) == <<"{", "\"color\": ">> \o tag \o <<"}">>

\* json.loads(group).get("color", ""): [ok, color]; ok = FALSE is JSONDecodeError
JsonLoadsColor(g) ==
    IF Len(g) = 4 /\ g[1] = "{" /\ g[2] = "\"color\": " /\ g[3] \in WordAtoms /\ g[4] = "}"
    THEN [ok |-> TRUE, color |-> <<g[3]>>]
    ELSE IF g = <<"{", "}">> THEN [ok |-> TRUE, color |-> <<>>]
    ELSE [ok |-> FALSE, color |-> <<>>]

\* One "    LocalForward <p1> <host>:<p2>" / "    RemoteForward ..." line per tuple
RECURSIVE ForwardLines(_, _)
ForwardLines(kw, fwds) ==
    IF fwds = <<>> THEN <<>>
    ELSE <<Indent \o <<kw, SP>> \o IntStr(fwds[1][1]) \o <<SP>> \o fwds[1][2]
             \o <<":">> \o IntStr(fwds[1][3])>>
         \o ForwardLines(kw, Tail(fwds))

\* Connection.to_ssh_config
to_ssh_config(c) ==
    LET meta == IF c.color_tag # <<>>
                THEN << <<MetaPrefix>> \o JsonDumpsColor(c.color_tag), <<>> >>
                ELSE <<>>
        head == << <<"Host", SP>> \o c.name,
                   Indent \o <<"HostName", SP>> \o c.hostname,
                   Indent \o <<"User", SP>> \o c.user,
                   Indent \o <<"Port", SP>> \o IntStr(c.port) >>
        ident == IF c.identity_file # <<>>
                 THEN << Indent \o <<"IdentityFile", SP>> \o c.identity_file >>
                 ELSE <<>>
        jump == IF c.proxy_jump # <<>>
                THEN << Indent \o <<"ProxyJump", SP>> \o c.proxy_jump >>
                ELSE <<>>
        keep == << Indent \o <<"ServerAliveInterval", SP, "60">>,
                   Indent \o <<"ServerAliveCountMax", SP, "3">>,
                   Indent \o <<"ConnectTimeout", SP, "10">> >>
    IN  JoinNL(meta \o head \o ident \o jump
               \o ForwardLines("LocalForward", c.local_forwards)
               \o ForwardLines("RemoteForward", c.remote_forwards)
               \o keep) \o <<NL>>

\* re.search(r'# SSH Manager Metadata: ({.*})', content): the first place where the
\* prefix is followed by "{" and a later "}" on the same line; group(1) runs to the
\* last "}" of that line.  [found, group]
MetadataMatch(content) ==
    LET Eol(i) == LET nl == FindFrom(content, <<NL>>, i)
                  IN  IF nl = 0 THEN Len(content) ELSE nl - 1
        Closes(i) == {j \in (i + 2)..Eol(i) : content[j] = "}"}
        starts == {i \in 1..(Len(content) - 1) :
                     content[i] = MetaPrefix /\ content[i + 1] = "{" /\ Closes(i) # {}}
    IN  IF starts = {} THEN [found |-> FALSE, group |-> <<>>]
        ELSE LET i == CHOOSE x \in starts : \A y \in starts : x <= y
                 last == CHOOSE j \in Closes(i) : \A k \in Closes(i) : k <= j
             IN  [found |-> TRUE, group |-> SubSeq(content, i + 1, last)]

\* line.split(kw + ' ')[1].strip() for a line that starts with kw + ' '
Value(line, kw) == Strip(Split(line, <<kw, SP>>)[2])

\* The body of "elif line.startswith('LocalForward ')": [ok, fwd]; fwd = <<>> when
\* the line is skipped, ok = FALSE when int() raises ValueError.
ParseForward(line, kw) ==
    LET parts == SplitWS(Value(line, kw))
    IN  IF Len(parts) # 2 THEN [ok |-> TRUE, fwd |-> <<>>]
        ELSE LET p1 == IntOf(parts[1])
                 hp == Split(parts[2], <<":">>)
             IN  IF ~p1.ok THEN [ok |-> FALSE, fwd |-> <<>>]
                 ELSE IF Len(hp) # 2 THEN [ok |-> TRUE, fwd |-> <<>>]
                 ELSE LET p2 == IntOf(hp[2])
                      IN  IF ~p2.ok THEN [ok |-> FALSE, fwd |-> <<>>]
                          ELSE [ok |-> TRUE, fwd |-> << <<p1.val, hp[1], p2.val>> >>]

\* One iteration of the "for line in content.split('\n')" loop on accumulator a.
ParseLine(a, raw) ==
    LET line == Strip(raw)
    IN  IF line = <<>> \/ line[1] \in HashAtoms THEN a
        ELSE IF StartsWith(line, <<"Host", SP>>) /\ a.name = <<>>
             THEN [a EXCEPT !.name = Strip(Split(line, <<"Host", SP>>)[2])]
        ELSE IF StartsWith(line, <<"HostName", SP>>)
             THEN [a EXCEPT !.hostname = Value(line, "HostName")]
        ELSE IF StartsWith(line, <<"User", SP>>)
             THEN [a EXCEPT !.user = Value(line, "User")]
        ELSE IF StartsWith(line, <<"Port", SP>>)
             THEN LET p == IntOf(Value(line, "Port"))
                  IN  IF p.ok THEN [a EXCEPT !.port = p.val] ELSE [a EXCEPT !.ok = FALSE]
        ELSE IF StartsWith(line, <<"IdentityFile", SP>>)
             THEN [a EXCEPT !.identity_file = Value(line, "IdentityFile")]
        ELSE IF StartsWith(line, <<"ProxyJump", SP>>)
             THEN [a EXCEPT !.proxy_jump = Value(line, "ProxyJump")]
        ELSE IF StartsWith(line, <<"LocalForward", SP>>)
             THEN LET f == ParseForward(line, "LocalForward")
                  IN  IF f.ok THEN [a EXCEPT !.local_forwards = @ \o f.fwd]
                      ELSE [a EXCEPT !.ok = FALSE]
        ELSE IF StartsWith(line, <<"RemoteForward", SP>>)
             THEN LET f == ParseForward(line, "RemoteForward")
                  IN  IF f.ok THEN [a EXCEPT !.remote_forwards = @ \o f.fwd]
                      ELSE [a EXCEPT !.ok = FALSE]
        ELSE a

RECURSIVE ParseLines(_, _)
ParseLines(a, lines) ==
    IF lines = <<>> \/ ~a.ok THEN a
    ELSE ParseLines(ParseLine(a, lines[1]), Tail(lines))

\* "return Connection(name=name or "unnamed", ...)" on what the loop collected
ParsedConnection(a, folder, color) ==
    [ok |-> a.ok,
     conn |-> [name |-> IF a.name # <<>> THEN a.name ELSE <<"unnamed">>,
               hostname |-> a.hostname, user |-> a.user, port |-> a.port,
               identity_file |-> a.identity_file, folder |-> folder,
               proxy_jump |-> a.proxy_jump,
               local_forwards |-> a.local_forwards,
               remote_forwards |-> a.remote_forwards,
               color_tag |-> color]]

\* The color_tag of the metadata comment, "" without one
MetadataColor(m) == IF m.found THEN JsonLoadsColor(m.group).color ELSE <<>>

\* Connection.from_ssh_config(content, name, folder): [ok, conn]; ok = FALSE when
\* int() raised ValueError.
from_ssh_config(content, name, folder) ==
    ParsedConnection(
        ParseLines([ok |-> TRUE, name |-> name, hostname |-> <<>>, user |-> <<>>,
                    port |-> 22, identity_file |-> <<>>, proxy_jump |-> <<>>,
                    local_forwards |-> <<>>, remote_forwards |-> <<>>],
                   Split(content, <<NL>>)),
        folder, MetadataColor(MetadataMatch(content)))

\* re.match(r'^[a-zA-Z0-9_-]+$', name): one or more allowed characters, then the
\* end of the string or a single newline that ends the string.
NameRegexMatch(name) ==
    LET body == IF name # <<>> /\ name[Len(name)] = NL
                THEN SubSeq(name, 1, Len(name) - 1) ELSE name
    IN  body # <<>> /\ \A i \in 1..Len(body) : body[i] \in WordAtoms

ErrNameRequired == "Connection name is required"
ErrNamePattern == "Connection name can only contain letters, numbers, dashes, and underscores"
ErrHostname == "Hostname is required"
ErrUsername == "Username is required"
ErrPort == "Port must be between 1 and 65535"
ErrFolder == "Invalid folder path"

\* Connection.validate: the list of error messages
validate(c) ==
    (IF c.name = <<>> THEN <<ErrNameRequired>>
     ELSE IF ~NameRegexMatch(c.name) THEN <<ErrNamePattern>> ELSE <<>>)
    \o (IF c.hostname = <<>> THEN <<ErrHostname>> ELSE <<>>)
    \o (IF c.user = <<>> THEN <<ErrUsername>> ELSE <<>>)
    \o (IF ~(1 <= c.port /\ c.port <= 65535) THEN <<ErrPort>> ELSE <<>>)
    \o (IF Contains(c.folder, <<"..">>) \/ StartsWith(c.folder, <<"/">>)
        THEN <<ErrFolder>> ELSE <<>>)

\* ----------------------------------------------- SpecConn: the record mapping

RECURSIVE SeqsUpTo(_, _)
SeqsUpTo(S, n) ==
    IF n = 0 THEN {<<>>}
    ELSE LET shorter == SeqsUpTo(S, n - 1)
         IN  shorter \cup {Append(q, x) : q \in {t \in shorter : Len(t) = n - 1}, x \in S}

LocalFwds == {<<8080, <<"localhost">>, 80>>, <<2222, <<"db">>, 22>>,
              <<8080, <<":", ":", "1">>, 80>>}
RemoteFwds == {<<80, <<"localhost">>, 8080>>, <<22, <<"db">>, 2222>>}

\* Records that vary the fields the text mapping carries.
TextRecords ==
    [name : {<<"db1">>},
     hostname : {<<"host">>, <<"host", SP>>, <<"A", SP, "HostName", SP, "B">>},
     user : {<<>>, <<"admin">>},
     port : {2222},
     identity_file : {<<>>, <<"~/.ssh/id_ed25519">>},
     folder : {<<"work", "/", "db">>},
     proxy_jump : {<<>>, <<"bastion">>},
     local_forwards : SeqsUpTo(LocalFwds, MaxFwd),
     remote_forwards : SeqsUpTo(RemoteFwds, MaxFwd),
     color_tag : {<<>>, <<"production">>}]

\* Records that vary the fields validate() looks at.
FieldRecords ==
    [name : {<<"db1">>, <<>>, <<"my", SP, "host">>, <<"db1", NL>>, <<"my", "-copy">>},
     hostname : {<<>>, <<"host">>},
     user : {<<>>, <<"admin">>},
     port : {0, 1, 2222, 65535, 65536, 70000},
     identity_file : {<<>>},
     folder : {<<"work", "/", "db">>, <<"..", "/", "etc">>, <<"/", "etc">>, <<>>},
     proxy_jump : {<<>>},
     local_forwards : {<<>>},
     remote_forwards : {<<>>},
     color_tag : {<<>>}]

Records == TextRecords \cup FieldRecords

NoConn ==
    [name |-> <<>>, hostname |-> <<>>, user |-> <<>>, port |-> 0, identity_file |-> <<>>,
     folder |-> <<>>, proxy_jump |-> <<>>, local_forwards |-> <<>>,
     remote_forwards |-> <<>>, color_tag |-> <<>>]

NoFile == [exists |-> FALSE, content |-> <<>>]
NoResult ==
    [created_dirs |-> FALSE, created_backup |-> FALSE, added_include |-> FALSE,
     existing_connections |-> 0]
NoOp ==
    [kind |-> "none", conn |-> NoConn, folder |-> <<>>, name |-> <<>>, from |-> <<>>,
     recursive |-> FALSE, res |-> [ok |-> TRUE, err |-> "", errors |-> <<>>],
     out |-> <<>>, template |-> "", keys |-> {}, by |-> ""]

\* A store instance that is not inside a save
IdleWriter == [pc |-> "idle", conn |-> NoConn]
NoWriters == [gui |-> IdleWriter, ext |-> IdleWriter]

\* The parts of the state a specification does not use stay at these values.
IdleConn ==
    /\ rec = NoConn
    /\ text = <<>>
    /\ parsed = [ok |-> FALSE, conn |-> NoConn]
    /\ errors = <<>>
    /\ cpc = {}
IdleSsh == sshDir = FALSE /\ sshConfig = NoFile /\ backup = NoFile
IdleFs == dirs = {} /\ files = <<>>
IdleInit == result = NoResult /\ orig = NoFile /\ initCalls = 0
IdleOp == op = NoOp
IdleWriters == writers = NoWriters

InitConn ==
    /\ rec \in Records
    /\ text = <<>>
    /\ parsed = [ok |-> FALSE, conn |-> NoConn]
    /\ errors = <<>>
    /\ cpc = {}
    /\ IdleSsh /\ IdleFs /\ IdleInit /\ IdleOp /\ IdleWriters

\* text = rec.to_ssh_config()
Serialize ==
    /\ "serialized" \notin cpc
    /\ text' = to_ssh_config(rec)
    /\ cpc' = cpc \cup {"serialized"}
    /\ UNCHANGED <<rec, parsed, errors, sshVars, fsVars, initVars, op, writers>>

\* parsed = Connection.from_ssh_config(text, name=rec.name, folder=rec.folder)
Parse ==
    /\ "serialized" \in cpc
    /\ "parsed" \notin cpc
    /\ parsed' = from_ssh_config(text, rec.name, rec.folder)
    /\ cpc' = cpc \cup {"parsed"}
    /\ UNCHANGED <<rec, text, errors, sshVars, fsVars, initVars, op, writers>>

\* errors = rec.validate()
Validate ==
    /\ "validated" \notin cpc
    /\ errors' = validate(rec)
    /\ cpc' = cpc \cup {"validated"}
    /\ UNCHANGED <<rec, text, parsed, sshVars, fsVars, initVars, op, writers>>

NextConn == Serialize \/ Parse \/ Validate

SpecConn == InitConn /\ [][NextConn]_vars

\* ------------------------------------ core/config_manager.py: initialize

\* f"Include {self.base_path}/**/*.conf"
IncludeLine == "Include <base_path>/**/*.conf"
ManagerComment == "# SSH Manager - Auto-generated connections"

BasePath == <<>>
SLASH == "/"
DefaultFolders == {<<"work">>, <<"personal">>}

\* A path is a string relative to base_path: BasePath is base_path itself,
\* "work/db" lies inside it, "../etc" and "/etc" lie outside it.
Outside(path) == StartsWith(path, <<"..">>) \/ StartsWith(path, <<"/">>)

\* Path.mkdir(parents=True, exist_ok=True): the directory and its ancestors (up to
\* base_path for a path inside it)
Ancestors(path) ==
    {SubSeq(path, 1, n) :
        n \in {k \in 1..Len(path) : k = Len(path) \/ path[k + 1] = SLASH}}
    \cup (IF Outside(path) THEN {} ELSE {BasePath})

\* ConfigManager.check_existing_ssh_config()['connection_count']
connection_count(cfg) ==
    IF ~cfg.exists THEN 0
    ELSE LET lines == Split(cfg.content, <<NL>>)
         IN  Cardinality({i \in 1..Len(lines) : StartsWith(Strip(lines[i]), <<"Host", SP>>)})

\* `include_line in content`
IncludePresent(content) == Contains(content, <<IncludeLine>>)

\* add_include_statement that puts the Include line in front of the old content
add_include_statement_prepend(cfg) ==
    IF ~cfg.exists
    THEN [cfg |-> [exists |-> TRUE, content |-> <<ManagerComment, NL, IncludeLine, NL>>],
          added |-> TRUE]
    ELSE IF IncludePresent(cfg.content) THEN [cfg |-> cfg, added |-> FALSE]
    ELSE [cfg |-> [exists |-> TRUE,
                   content |-> <<ManagerComment, NL, IncludeLine, NL, NL>> \o cfg.content],
          added |-> TRUE]

\* ConfigManager.add_include_statement: [cfg, added]
add_include_statement(cfg) ==
    IF ~cfg.exists
    THEN [cfg |-> [exists |-> TRUE, content |-> <<ManagerComment, NL, IncludeLine, NL>>],
          added |-> TRUE]
    ELSE IF IncludePresent(cfg.content) THEN [cfg |-> cfg, added |-> FALSE]
    ELSE LET c1 == IF EndsWith(cfg.content, <<NL>>) THEN cfg.content
                   ELSE cfg.content \o <<NL>>
         IN  [cfg |-> [exists |-> TRUE,
                       content |-> c1 \o <<NL, ManagerComment, NL, IncludeLine, NL>>],
              added |-> TRUE]

\* "if self.ssh_config.exists() and not self.backup_path.exists()"
BackupNeeded(cfg, bak) == cfg.exists /\ ~bak.exists

\* ConfigManager.initialize
Initialize ==
    /\ initCalls < MaxInitCalls
    /\ LET mkBackup == BackupNeeded(sshConfig, backup)
           inc == add_include_statement(sshConfig)
       IN  /\ dirs' = dirs \cup Ancestors(BasePath) \cup DefaultFolders
           /\ sshDir' = TRUE
           /\ backup' = IF mkBackup THEN sshConfig ELSE backup
           /\ sshConfig' = inc.cfg
           /\ result' = [created_dirs |-> BasePath \notin dirs,
                         created_backup |-> mkBackup,
                         added_include |-> inc.added,
                         existing_connections |-> connection_count(sshConfig)]
    /\ initCalls' = initCalls + 1
    /\ UNCHANGED <<connVars, files, orig, op, writers>>

\* Lines a user's own ~/.ssh/config is made of.
UserLines == {<<"Host", SP, "A">>, <<IncludeLine>>, <<"#", SP, IncludeLine>>}

\* Number of lines of the content that are exactly the Include line.
IncludeLineCount(content) ==
    LET lines == Split(content, <<NL>>)
    IN  Cardinality({i \in 1..Len(lines) : lines[i] = <<IncludeLine>>})

\* ~/.ssh/config before the first run: absent, or up to MaxCfgLines user lines of
\* which at most one is the Include line, the last one with or without its newline.
StartConfigs ==
    {NoFile} \cup
    {[exists |-> TRUE, content |-> JoinNL(ls) \o tail] :
        ls \in {q \in SeqsUpTo(UserLines, MaxCfgLines) :
                  Cardinality({i \in 1..Len(q) : q[i] = <<IncludeLine>>}) <= 1},
        tail \in {<<>>, <<NL>>}}

InitInit ==
    /\ sshDir \in BOOLEAN
    /\ sshConfig \in StartConfigs
    /\ sshConfig.exists => sshDir
    /\ backup = NoFile
    /\ dirs \in {{}, {BasePath}, {BasePath} \cup DefaultFolders}
    /\ files = <<>>
    /\ result = NoResult
    /\ orig = sshConfig
    /\ initCalls = 0
    /\ IdleConn /\ IdleOp /\ IdleWriters

NextInit == Initialize

SpecInit == InitInit /\ [][NextInit]_vars

\* ----------------------------------- core/config_manager.py: the store

RECURSIVE JoinSlash(_)
JoinSlash(parts) ==
    IF parts = <<>> THEN <<>>
    ELSE IF Len(parts) = 1 THEN parts[1]
    ELSE parts[1] \o <<SLASH>> \o JoinSlash(Tail(parts))

\* The segments of a path with "" and "." dropped and "x/.." resolved, as the
\* operating system resolves them.
RECURSIVE Segments(_, _)
Segments(pieces, acc) ==
    IF pieces = <<>> THEN acc
    ELSE LET x == pieces[1]
         IN  IF x = <<>> \/ x = <<".">> THEN Segments(Tail(pieces), acc)
             ELSE IF x = <<"..">> /\ acc # <<>> /\ acc[Len(acc)] # <<"..">>
                  THEN Segments(Tail(pieces), SubSeq(acc, 1, Len(acc) - 1))
             ELSE Segments(Tail(pieces), Append(acc, x))

\* self.base_path / folder, as the place on disk it names
FolderPath(folder) ==
    IF StartsWith(folder, <<SLASH>>)
    THEN <<SLASH>> \o JoinSlash(Segments(Split(folder, <<SLASH>>), <<>>))
    ELSE JoinSlash(Segments(Split(folder, <<SLASH>>), <<>>))

\* The file self.base_path / folder / f"{name}.conf"
FileKey(folder, name) == <<FolderPath(folder), name>>

\* Whether directory d is path or lies below it
Under(d, path) ==
    \/ d = path
    \/ path = BasePath /\ ~Outside(d)
    \/ path # BasePath /\ StartsWith(d, path \o <<SLASH>>)

\* any(folder.iterdir())
HasEntries(d, f, path) ==
    \/ \E k \in DOMAIN f : k[1] = path
    \/ \E x \in d : x # path /\ Under(x, path)

\* Path.write_text(content)
WriteFile(f, key, content) ==
    [k \in DOMAIN f \cup {key} |-> IF k = key THEN content ELSE f[k]]

\* Path.unlink()
RemoveFile(f, key) == [k \in DOMAIN f \ {key} |-> f[k]]

OkResult == [ok |-> TRUE, err |-> "", errors |-> <<>>]
Raise(err, errs) == [ok |-> FALSE, err |-> err, errors |-> errs]

\* ConfigManager.save_connection: [dirs, files, res]
save_connection(d, f, conn) ==
    LET errs == validate(conn)
    IN  IF errs # <<>>
        THEN [dirs |-> d, files |-> f, res |-> Raise("ValueError", errs)]
        ELSE [dirs |-> d \cup Ancestors(FolderPath(conn.folder)),
              files |-> WriteFile(f, FileKey(conn.folder, conn.name), to_ssh_config(conn)),
              res |-> OkResult]

\* ConfigManager.load_connection: [res, conn]
load_connection(f, folder, name) ==
    IF FileKey(folder, name) \notin DOMAIN f
    THEN [res |-> Raise("FileNotFoundError", <<>>), conn |-> NoConn]
    ELSE LET p == from_ssh_config(f[FileKey(folder, name)], name, folder)
         IN  IF p.ok THEN [res |-> OkResult, conn |-> p.conn]
             ELSE [res |-> Raise("ValueError", <<>>), conn |-> NoConn]

\* delete_connection that passes over a missing file in silence
delete_connection_silent(f, folder, name) ==
    IF FileKey(folder, name) \notin DOMAIN f
    THEN [files |-> f, res |-> OkResult]
    ELSE [files |-> RemoveFile(f, FileKey(folder, name)), res |-> OkResult]

\* ConfigManager.delete_connection: [files, res]
delete_connection(f, folder, name) ==
    IF FileKey(folder, name) \notin DOMAIN f
    THEN [files |-> f, res |-> Raise("FileNotFoundError", <<>>)]
    ELSE [files |-> RemoveFile(f, FileKey(folder, name)), res |-> OkResult]

\* ConfigManager.connection_exists
connection_exists(f, folder, name) == FileKey(folder, name) \in DOMAIN f

\* move_connection with the destination folder created before the two checks
move_connection_mkdir_first(d, f, conn, new_folder) ==
    LET old_file == FileKey(conn.folder, conn.name)
        new_file == FileKey(new_folder, conn.name)
        d2 == d \cup Ancestors(FolderPath(new_folder))
    IN  IF old_file \notin DOMAIN f
        THEN [dirs |-> d2, files |-> f, res |-> Raise("FileNotFoundError", <<>>),
              conn |-> conn]
        ELSE IF new_file \in DOMAIN f
        THEN [dirs |-> d2, files |-> f, res |-> Raise("ValueError", <<>>), conn |-> conn]
        ELSE [dirs |-> d2,
              files |-> WriteFile(RemoveFile(f, old_file), new_file, f[old_file]),
              res |-> OkResult,
              conn |-> [conn EXCEPT !.folder = new_folder]]

\* move_connection that copies the file and leaves the source in place
move_connection_copy(d, f, conn, new_folder) ==
    LET old_file == FileKey(conn.folder, conn.name)
        new_file == FileKey(new_folder, conn.name)
    IN  IF old_file \notin DOMAIN f
        THEN [dirs |-> d, files |-> f, res |-> Raise("FileNotFoundError", <<>>),
              conn |-> conn]
        ELSE IF new_file \in DOMAIN f
        THEN [dirs |-> d, files |-> f, res |-> Raise("ValueError", <<>>), conn |-> conn]
        ELSE [dirs |-> d \cup Ancestors(FolderPath(new_folder)),
              files |-> WriteFile(f, new_file, f[old_file]),
              res |-> OkResult,
              conn |-> [conn EXCEPT !.folder = new_folder]]

\* ConfigManager.move_connection: [dirs, files, res, conn]
move_connection(d, f, conn, new_folder) ==
    LET old_file == FileKey(conn.folder, conn.name)
        new_file == FileKey(new_folder, conn.name)
    IN  IF old_file \notin DOMAIN f
        THEN [dirs |-> d, files |-> f, res |-> Raise("FileNotFoundError", <<>>),
              conn |-> conn]
        ELSE IF new_file \in DOMAIN f
        THEN [dirs |-> d, files |-> f, res |-> Raise("ValueError", <<>>), conn |-> conn]
        ELSE [dirs |-> d \cup Ancestors(FolderPath(new_folder)),
              files |-> WriteFile(RemoveFile(f, old_file), new_file, f[old_file]),
              res |-> OkResult,
              conn |-> [conn EXCEPT !.folder = new_folder]]

\* ConfigManager.create_folder: the directories afterwards
create_folder(d, folder_path) == d \cup Ancestors(FolderPath(folder_path))

\* delete_folder without the "not empty" refusal: a non-empty folder is removed
\* with its subtree whatever the flag says
delete_folder_no_refusal(d, f, folder_path, recursive) ==
    LET folder == FolderPath(folder_path)
    IN  IF folder \notin d
        THEN [dirs |-> d, files |-> f, res |-> Raise("FileNotFoundError", <<>>)]
        ELSE [dirs |-> {x \in d : ~Under(x, folder)},
              files |-> [k \in {j \in DOMAIN f : ~Under(j[1], folder)} |-> f[k]],
              res |-> OkResult]

\* ConfigManager.delete_folder: [dirs, files, res]
delete_folder(d, f, folder_path, recursive) ==
    LET folder == FolderPath(folder_path)
    IN  IF folder \notin d
        THEN [dirs |-> d, files |-> f, res |-> Raise("FileNotFoundError", <<>>)]
        ELSE IF ~recursive /\ HasEntries(d, f, folder)
        THEN [dirs |-> d, files |-> f, res |-> Raise("ValueError", <<>>)]
        ELSE IF recursive
        THEN [dirs |-> {x \in d : ~Under(x, folder)},
              files |-> [k \in {j \in DOMAIN f : ~Under(j[1], folder)} |-> f[k]],
              res |-> OkResult]
        ELSE [dirs |-> d \ {folder}, files |-> f, res |-> OkResult]


\* ------------------------------------- core/config_manager.py: listing

\* The orders in which a directory walk (glob, rglob) can yield the files of S.
Orders(S) ==
    {q \in SeqsUpTo(S, Cardinality(S)) :
        Len(q) = Cardinality(S) /\ {q[i] : i \in 1..Len(q)} = S}

\* str(path.relative_to(self.base_path)): "." for base_path itself
RelStr(dir) == IF dir = BasePath THEN <<".">> ELSE dir

\* What one pass of the loop adds to the list: the record, or nothing when
\* load_connection raised and the warning was printed.
LoadOne(r) == IF r.res.ok THEN <<r.conn>> ELSE <<>>

\* The loop body "try: connections.append(self.load_connection(folder, stem))
\* except Exception: print(warning)" over the files a walk yields.
RECURSIVE LoadEach(_, _)
LoadEach(f, items) ==
    IF items = <<>> THEN <<>>
    ELSE LoadOne(load_connection(f, items[1][1], items[1][2]))
            \o LoadEach(f, Tail(items))

\* list_connections that lets the first parse failure escape
list_connections_strict(d, f, folder, order) ==
    LET folder_path == FolderPath(folder)
        InFolder(k) == k[1] = folder_path
        walk == IF folder # <<>>
                THEN IF folder_path \in d THEN SelectSeq(order, InFolder) ELSE <<>>
                ELSE order
        items == [i \in 1..Len(walk) |->
                    <<IF folder # <<>> THEN folder ELSE RelStr(walk[i][1]), walk[i][2]>>]
    IN  IF Len(LoadEach(f, items)) < Len(items)
        THEN [res |-> Raise("ValueError", <<>>), out |-> <<>>]
        ELSE [res |-> OkResult, out |-> LoadEach(f, items)]

\* list_connections that walks the whole subtree of the folder it is given
list_connections_rglob(d, f, folder, order) ==
    LET folder_path == FolderPath(folder)
        InSub(k) == Under(k[1], folder_path)
        walk == IF folder # <<>>
                THEN IF folder_path \in d THEN SelectSeq(order, InSub) ELSE <<>>
                ELSE order
        items == [i \in 1..Len(walk) |->
                    <<IF folder # <<>> THEN folder ELSE RelStr(walk[i][1]), walk[i][2]>>]
    IN  [res |-> OkResult, out |-> LoadEach(f, items)]

\* ConfigManager.list_connections(folder): [res, out]; folder = <<>> is None (or
\* ""), order is the order in which the walk yields the .conf files.
list_connections(d, f, folder, order) ==
    LET folder_path == FolderPath(folder)
        InFolder(k) == k[1] = folder_path
        walk == IF folder # <<>>
                THEN IF folder_path \in d THEN SelectSeq(order, InFolder) ELSE <<>>
                ELSE order
        items == [i \in 1..Len(walk) |->
                    <<IF folder # <<>> THEN folder ELSE RelStr(walk[i][1]), walk[i][2]>>]
    IN  [res |-> OkResult, out |-> LoadEach(f, items)]

\* Path.parts of a directory relative to base_path
Parts(dir) == IF dir = BasePath THEN <<>> ELSE Split(dir, <<SLASH>>)

\* ConfigManager.list_folders: the folders under base_path, as the set of the
\* sorted list's elements
list_folders(d) == {x \in d : x # BasePath /\ ~Outside(x)}

\* ConfigManager._count_connections_by_folder: for every folder that holds a
\* .conf file, the number of .conf files in it; the files are counted, not loaded.
count_connections_by_folder(f) ==
    [folder \in {RelStr(k[1]) : k \in DOMAIN f} |->
        Cardinality({k \in DOMAIN f : RelStr(k[1]) = folder})]

\* ConfigManager.get_stats, without base_path and ssh_config which are constant
get_stats(d, f, order) ==
    [total_connections |-> Len(list_connections(d, f, <<>>, order).out),
     total_folders |-> Cardinality(list_folders(d)),
     connections_by_folder |-> count_connections_by_folder(f)]

\* One iteration of the loop of get_folder_tree on the file k = <<dir, stem>>.  The
\* nested dict is kept flat: nodes maps the path of each node (the segments that
\* lead to it through the '_folders' maps) to its '_connections' list, and root is
\* the '_connections' key of the top-level dict.
TreeAddFile(tree, k) ==
    LET folder_parts == Parts(k[1])
        prefixes == {SubSeq(folder_parts, 1, i) : i \in 1..Len(folder_parts)}
        nodes2 == [p \in DOMAIN tree.nodes \cup prefixes |->
                     IF p \in DOMAIN tree.nodes THEN tree.nodes[p] ELSE <<>>]
    IN  IF folder_parts # <<>>
        THEN [nodes |-> [nodes2 EXCEPT ![folder_parts] = Append(@, k[2])],
              root |-> tree.root]
        ELSE [nodes |-> tree.nodes,
              root |-> [present |-> TRUE, connections |-> Append(tree.root.connections, k[2])]]

\* ConfigManager.get_folder_tree, order being the order in which rglob yields the
\* .conf files
RECURSIVE get_folder_tree(_, _)
get_folder_tree(tree, order) ==
    IF order = <<>> THEN tree
    ELSE get_folder_tree(TreeAddFile(tree, order[1]), Tail(order))

\* "tree = {}"
EmptyTree == [nodes |-> <<>>, root |-> [present |-> FALSE, connections |-> <<>>]]

\* ------------------------------------------------ SpecStore: store operations

PlainConn ==
    [name |-> <<"db1">>, hostname |-> <<"10.0.0.5">>, user |-> <<"admin">>, port |-> 22,
     identity_file |-> <<>>, folder |-> <<"work", SLASH, "db">>, proxy_jump |-> <<>>,
     local_forwards |-> <<>>, remote_forwards |-> <<>>, color_tag |-> <<>>]

StoreNames == {<<"A">>, <<"db1">>}
StoreFolders == {<<"work">>, <<"personal">>, <<"work", SLASH, "db">>}

\* Records save_connection is called with: plain ones, one with an IPv6 forward,
\* and ones that break the rules of validate() one at a time and several at once.
SaveRecords ==
    {[PlainConn EXCEPT !.port = 2222],
     [PlainConn EXCEPT !.local_forwards = << <<8080, <<":", ":", "1">>, 80>> >>],
     [PlainConn EXCEPT !.name = <<"A">>, !.folder = <<"work">>],
     [PlainConn EXCEPT !.name = <<"A">>, !.folder = <<"personal">>],
     [PlainConn EXCEPT !.name = <<"db1", NL>>, !.folder = <<"work">>],
     [PlainConn EXCEPT !.name = <<"my", SP, "host">>],
     [PlainConn EXCEPT !.name = <<>>],
     [PlainConn EXCEPT !.hostname = <<>>],
     [PlainConn EXCEPT !.user = <<>>],
     [PlainConn EXCEPT !.port = 0],
     [PlainConn EXCEPT !.folder = <<"..", SLASH, "etc">>],
     [PlainConn EXCEPT !.name = <<"my", SP, "host">>, !.hostname = <<>>,
                       !.port = 0, !.folder = <<"..", SLASH, "etc">>]}

\* Connection objects move_connection is called with.
MoveConns == {[PlainConn EXCEPT !.name = n, !.folder = fo] : n \in StoreNames, fo \in StoreFolders}

SaveConnection ==
    \E conn \in SaveRecords :
        \E r \in {save_connection(dirs, files, conn)} :
            /\ Cardinality(DOMAIN r.files) <= MaxFiles
            /\ dirs' = r.dirs
            /\ files' = r.files
            /\ op' = [NoOp EXCEPT !.kind = "save", !.conn = conn, !.res = r.res]
            /\ UNCHANGED <<connVars, sshVars, initVars, writers>>

LoadConnection ==
    \E folder \in StoreFolders, name \in StoreNames :
        \E r \in {load_connection(files, folder, name)} :
            /\ op' = [NoOp EXCEPT !.kind = "load", !.folder = folder, !.name = name,
                                  !.conn = r.conn, !.res = r.res]
            /\ UNCHANGED <<connVars, sshVars, initVars, dirs, files, writers>>

DeleteConnection ==
    \E folder \in StoreFolders, name \in StoreNames :
        \E r \in {delete_connection(files, folder, name)} :
            /\ files' = r.files
            /\ op' = [NoOp EXCEPT !.kind = "delete", !.folder = folder, !.name = name,
                                  !.res = r.res]
            /\ UNCHANGED <<connVars, sshVars, initVars, dirs, writers>>

MoveConnection ==
    \E conn \in MoveConns, new_folder \in StoreFolders :
        \E r \in {move_connection(dirs, files, conn, new_folder)} :
            /\ dirs' = r.dirs
            /\ files' = r.files
            /\ op' = [NoOp EXCEPT !.kind = "move", !.conn = r.conn, !.from = conn.folder,
                                  !.folder = new_folder, !.res = r.res]
            /\ UNCHANGED <<connVars, sshVars, initVars, writers>>

CreateFolder ==
    \E folder_path \in StoreFolders :
        /\ dirs' = create_folder(dirs, folder_path)
        /\ op' = [NoOp EXCEPT !.kind = "create_folder", !.folder = folder_path]
        /\ UNCHANGED <<connVars, sshVars, initVars, files, writers>>

DeleteFolder ==
    \E folder_path \in StoreFolders, recursive \in BOOLEAN :
        \E r \in {delete_folder(dirs, files, folder_path, recursive)} :
            /\ dirs' = r.dirs
            /\ files' = r.files
            /\ op' = [NoOp EXCEPT !.kind = "delete_folder", !.folder = folder_path,
                                  !.recursive = recursive, !.res = r.res]
            /\ UNCHANGED <<connVars, sshVars, initVars, writers>>

\* The store as the program finds it: nothing on disk yet, or the tree that
\* initialize() leaves.
InitStore ==
    /\ dirs \in {{}, {BasePath} \cup DefaultFolders}
    /\ files = <<>>
    /\ op = NoOp
    /\ IdleConn /\ IdleSsh /\ IdleInit /\ IdleWriters

GetFolderTree ==
    \E order \in Orders(DOMAIN files) :
        /\ op' = [NoOp EXCEPT !.kind = "tree", !.out = get_folder_tree(EmptyTree, order)]
        /\ UNCHANGED <<connVars, sshVars, initVars, dirs, files, writers>>

NextStore ==
    \/ SaveConnection
    \/ LoadConnection
    \/ DeleteConnection
    \/ MoveConnection
    \/ CreateFolder
    \/ DeleteFolder
    \/ GetFolderTree

SpecStore == InitStore /\ [][NextStore]_vars


\* ----------------------------------------- SpecList: listing a given tree

\* File contents found on disk: a saved connection, a file whose Port is not a
\* number (int() raises), and a file without any directive.
GoodText == to_ssh_config([PlainConn EXCEPT !.port = 2222])
BadPortText ==
    <<"Host", SP, "A", NL>> \o Indent \o <<"HostName", SP, "host", NL>>
        \o Indent \o <<"Port", SP, "abc", NL>>
BareText == <<"hello", NL>>
ListContents == {GoodText, BadPortText, BareText}

ListDirs == {BasePath, <<"work">>, <<"work", SLASH, "db">>}
ListArgs == {<<>>, <<"work">>, <<"work", SLASH, "db">>, <<"personal">>}

\* The trees listing is run on: up to MaxFiles .conf files in ListDirs, the
\* directories they need, and possibly the empty folder "personal".
ListFiles ==
    UNION {[K -> ListContents] :
             K \in {X \in SUBSET (ListDirs \X StoreNames) : Cardinality(X) <= MaxFiles}}

InitList ==
    /\ files \in ListFiles
    /\ \E extra \in {{}, {<<"personal">>}} :
          dirs = {BasePath} \cup UNION {Ancestors(k[1]) : k \in DOMAIN files} \cup extra
    /\ op = NoOp
    /\ IdleConn /\ IdleSsh /\ IdleInit /\ IdleWriters

ListConnections ==
    \E folder \in ListArgs, order \in Orders(DOMAIN files) :
        \E r \in {list_connections(dirs, files, folder, order)} :
            /\ op' = [NoOp EXCEPT !.kind = "list", !.folder = folder, !.res = r.res,
                                  !.out = r.out]
            /\ UNCHANGED <<connVars, sshVars, initVars, dirs, files, writers>>

GetStats ==
    \E order \in Orders(DOMAIN files) :
        /\ op' = [NoOp EXCEPT !.kind = "stats", !.out = <<get_stats(dirs, files, order)>>]
        /\ UNCHANGED <<connVars, sshVars, initVars, dirs, files, writers>>

NextList == ListConnections \/ GetStats

SpecList == InitList /\ [][NextList]_vars

\* ------------------- SpecWriters: two store instances on one base directory

\* open(mode='w') of Path.write_text: the file is created, or truncated
OpenForWrite(f, key) == WriteFile(f, key, <<>>)

\* f.write(data) and close of Path.write_text: the data goes to offset 0 of the
\* file as it is by then; what another writer put beyond its end stays
WriteAtStart(f, key, data) ==
    LET cur == IF key \in DOMAIN f THEN f[key] ELSE <<>>
    IN  WriteFile(f, key, data \o SubSeq(cur, Len(data) + 1, Len(cur)))

\* Records the two instances save: two for the same file with serializations of
\* different length, one for another file, one that validate() rejects.
WriterRecords ==
    {[PlainConn EXCEPT !.folder = <<"work">>],
     [PlainConn EXCEPT !.folder = <<"work">>, !.identity_file = <<"~/.ssh/id_ed25519">>,
                       !.proxy_jump = <<"bastion">>],
     [PlainConn EXCEPT !.folder = <<"work">>, !.name = <<"A">>],
     [PlainConn EXCEPT !.folder = <<"work">>, !.hostname = <<>>]}

InitWriters ==
    /\ dirs = {BasePath} \cup DefaultFolders
    /\ files = <<>>
    /\ writers = NoWriters
    /\ op = NoOp
    /\ IdleConn /\ IdleSsh /\ IdleInit

\* MainWindow.save_new_connection up to the connection_exists test: a warning
\* and return when the file is there
GuiCheck ==
    \E conn \in WriterRecords :
        /\ writers.gui.pc = "idle"
        /\ IF connection_exists(files, conn.folder, conn.name)
           THEN /\ op' = [NoOp EXCEPT !.kind = "exists", !.by = "gui", !.conn = conn]
                /\ UNCHANGED writers
           ELSE /\ op' = [NoOp EXCEPT !.kind = "check", !.by = "gui", !.conn = conn]
                /\ writers' = [writers EXCEPT !.gui = [pc |-> "checked", conn |-> conn]]
        /\ UNCHANGED <<connVars, sshVars, initVars, dirs, files>>

\* save_connection of instance w for conn, up to the open inside write_text
SaveOpen(w, conn) ==
    IF validate(conn) # <<>>
    THEN /\ op' = [NoOp EXCEPT !.kind = "open", !.by = w, !.conn = conn,
                               !.res = Raise("ValueError", validate(conn))]
         /\ writers' = [writers EXCEPT ![w] = IdleWriter]
         /\ UNCHANGED <<dirs, files>>
    ELSE /\ dirs' = dirs \cup Ancestors(FolderPath(conn.folder))
         /\ files' = OpenForWrite(files, FileKey(conn.folder, conn.name))
         /\ op' = [NoOp EXCEPT !.kind = "open", !.by = w, !.conn = conn]
         /\ writers' = [writers EXCEPT ![w] = [pc |-> "opened", conn |-> conn]]

\* The rest of save_connection of instance w: the write and close of write_text
SaveWrite(w) ==
    /\ files' = WriteAtStart(files, FileKey(writers[w].conn.folder, writers[w].conn.name),
                             to_ssh_config(writers[w].conn))
    /\ op' = [NoOp EXCEPT !.kind = "write", !.by = w, !.conn = writers[w].conn]
    /\ writers' = [writers EXCEPT ![w] = IdleWriter]
    /\ UNCHANGED <<connVars, sshVars, initVars, dirs>>

GuiOpen ==
    /\ writers.gui.pc = "checked"
    /\ SaveOpen("gui", writers.gui.conn)
    /\ UNCHANGED <<connVars, sshVars, initVars>>

GuiWrite ==
    /\ writers.gui.pc = "opened"
    /\ SaveWrite("gui")

\* A second ConfigManager on the same base_path calls save_connection
ExtOpen ==
    \E conn \in WriterRecords :
        /\ writers.ext.pc = "idle"
        /\ SaveOpen("ext", conn)
        /\ UNCHANGED <<connVars, sshVars, initVars>>

ExtWrite ==
    /\ writers.ext.pc = "opened"
    /\ SaveWrite("ext")

NextWriters ==
    \/ GuiCheck
    \/ GuiOpen
    \/ GuiWrite
    \/ ExtOpen
    \/ ExtWrite

SpecWriters == InitWriters /\ [][NextWriters]_vars

\* ------------------------- SpecParse: from_ssh_config on files as found

\* Lines of a .conf file: Host lines with one alias, with an alias that ends in
\* "Host" followed by a second pattern, indented, commented out, and a directive.
ParseFileLines ==
    {<<"Host", SP, "A">>,
     <<"Host", SP, "B">>,
     <<"Host", SP, "my", "Host", SP, "B">>,
     Indent \o <<"Host", SP, "host">>,
     <<"#", SP, "Host", SP, "u">>,
     Indent \o <<"HostName", SP, "10.0.0.5">>}

\* The contents from_ssh_config is run on: up to MaxCfgLines + 1 such lines
ParseContents ==
    {JoinNL(ls) \o <<NL>> : ls \in SeqsUpTo(ParseFileLines, MaxCfgLines + 1) \ {<<>>}}
        \cup {<<>>}

\* The name argument: none, or a file's base-name
ParseNames == {<<>>, <<"db1">>}

InitParse ==
    /\ text \in ParseContents
    /\ dirs = {BasePath, <<"work">>}
    /\ files = [k \in {FileKey(<<"work">>, <<"db1">>)} |-> text]
    /\ rec = NoConn
    /\ parsed = [ok |-> FALSE, conn |-> NoConn]
    /\ errors = <<>>
    /\ cpc = {}
    /\ op = NoOp
    /\ IdleSsh /\ IdleInit /\ IdleWriters

\* parsed = Connection.from_ssh_config(text, name=name, folder="work")
FromSshConfig ==
    \E name \in ParseNames :
        /\ parsed' = from_ssh_config(text, name, <<"work">>)
        /\ cpc' = {"parsed"}
        /\ op' = [NoOp EXCEPT !.kind = "parse", !.name = name]
        /\ UNCHANGED <<rec, text, errors, sshVars, fsVars, initVars, writers>>

\* load_connection("work", "db1") on the same content
LoadParsed ==
    \E r \in {load_connection(files, <<"work">>, <<"db1">>)} :
        /\ op' = [NoOp EXCEPT !.kind = "load", !.folder = <<"work">>,
                              !.name = <<"db1">>, !.conn = r.conn, !.res = r.res]
        /\ cpc' = {}
        /\ UNCHANGED <<rec, text, parsed, errors, sshVars, fsVars, initVars, writers>>

NextParse == FromSshConfig \/ LoadParsed

SpecParse == InitParse /\ [][NextParse]_vars

\* ----------------------- SpecContain: store operations with any folder argument

\* Folder arguments: inside base_path, leading out of it with "..", absolute
ContainFolders ==
    {<<"work">>, <<"..", SLASH, "etc">>, <<SLASH, "etc">>,
     <<"work", SLASH, "..", SLASH, "..", SLASH, "etc">>}

ContainConns ==
    {[PlainConn EXCEPT !.name = n, !.folder = fo] : n \in StoreNames, fo \in ContainFolders}

InitContain ==
    /\ dirs = {BasePath} \cup DefaultFolders
    /\ files = <<>>
    /\ op = NoOp
    /\ IdleConn /\ IdleSsh /\ IdleInit /\ IdleWriters

ContainSave ==
    \E conn \in ContainConns :
        \E r \in {save_connection(dirs, files, conn)} :
            /\ Cardinality(DOMAIN r.files) <= MaxFiles
            /\ dirs' = r.dirs
            /\ files' = r.files
            /\ op' = [NoOp EXCEPT !.kind = "save", !.conn = conn,
                                  !.folder = conn.folder, !.res = r.res]
            /\ UNCHANGED <<connVars, sshVars, initVars, writers>>

ContainMove ==
    \E conn \in ContainConns, new_folder \in ContainFolders :
        \E r \in {move_connection(dirs, files, conn, new_folder)} :
            /\ dirs' = r.dirs
            /\ files' = r.files
            /\ op' = [NoOp EXCEPT !.kind = "move", !.conn = r.conn, !.from = conn.folder,
                                  !.folder = new_folder, !.res = r.res]
            /\ UNCHANGED <<connVars, sshVars, initVars, writers>>

ContainCreateFolder ==
    \E folder_path \in ContainFolders :
        /\ dirs' = create_folder(dirs, folder_path)
        /\ op' = [NoOp EXCEPT !.kind = "create_folder", !.folder = folder_path]
        /\ UNCHANGED <<connVars, sshVars, initVars, files, writers>>

ContainDelete ==
    \E folder \in ContainFolders, name \in StoreNames :
        \E r \in {delete_connection(files, folder, name)} :
            /\ files' = r.files
            /\ op' = [NoOp EXCEPT !.kind = "delete", !.folder = folder, !.name = name,
                                  !.res = r.res]
            /\ UNCHANGED <<connVars, sshVars, initVars, dirs, writers>>

ContainDeleteFolder ==
    \E folder_path \in ContainFolders, recursive \in BOOLEAN :
        \E r \in {delete_folder(dirs, files, folder_path, recursive)} :
            /\ dirs' = r.dirs
            /\ files' = r.files
            /\ op' = [NoOp EXCEPT !.kind = "delete_folder", !.folder = folder_path,
                                  !.recursive = recursive, !.res = r.res]
            /\ UNCHANGED <<connVars, sshVars, initVars, writers>>

NextContain ==
    \/ ContainSave
    \/ ContainMove
    \/ ContainCreateFolder
    \/ ContainDelete
    \/ ContainDeleteFolder

SpecContain == InitContain /\ [][NextContain]_vars

\* ------------------------------------- ui/main_window.py: the GUI's handlers

\* MainWindow.save_new_connection: [dirs, files, res]; the warning box is
\* res.err = "Connection Exists", the critical box an exception's name
save_new_connection(d, f, connection) ==
    IF connection_exists(f, connection.folder, connection.name)
    THEN [dirs |-> d, files |-> f, res |-> Raise("Connection Exists", <<>>)]
    ELSE save_connection(d, f, connection)

\* save_edited_connection after its test of name and folder: del is the outcome
\* of delete_connection on the old connection
DeleteThenSave(d, f, changed, del, new_connection) ==
    IF changed /\ ~del.res.ok
    THEN [dirs |-> d, files |-> f, res |-> del.res]
    ELSE save_connection(d, IF changed THEN del.files ELSE f, new_connection)

\* MainWindow.save_edited_connection: [dirs, files, res]
save_edited_connection(d, f, old_connection, new_connection) ==
    DeleteThenSave(d, f,
                   \/ old_connection.name # new_connection.name
                   \/ old_connection.folder # new_connection.folder,
                   delete_connection(f, old_connection.folder, old_connection.name),
                   new_connection)

\* The "while self.config_manager.connection_exists(...)" loop of
\* duplicate_connection: the name it ends with
RECURSIVE UniqueName(_, _, _, _)
UniqueName(f, connection, new_name, counter) ==
    IF connection_exists(f, connection.folder, new_name)
    THEN UniqueName(f, connection, connection.name \o <<"-copy", ToString(counter)>>,
                    counter + 1)
    ELSE new_name

\* What duplicate_connection leaves: the outcome of save_connection, and the copy
Duplicated(r, new_conn) ==
    [dirs |-> r.dirs, files |-> r.files, res |-> r.res, conn |-> new_conn]

\* The "Create copy" part of duplicate_connection, for the name found
SaveCopy(d, f, new_conn) == Duplicated(save_connection(d, f, new_conn), new_conn)

\* MainWindow.duplicate_connection: [dirs, files, res, conn], conn the copy
duplicate_connection(d, f, connection) ==
    SaveCopy(d, f, [connection EXCEPT
                       !.name = UniqueName(f, connection,
                                           connection.name \o <<"-copy">>, 1)])

\* ------------------------------------------ SpecGui: the GUI on its store

\* Records the connection dialog emits: it emits only what validate() accepts
GuiFolders == {<<"work">>, <<"personal">>}
GuiRecords ==
    {[PlainConn EXCEPT !.name = n, !.folder = fo] : n \in StoreNames, fo \in GuiFolders}
        \cup {[PlainConn EXCEPT !.name = <<"A">>, !.folder = <<"work">>,
                                !.hostname = <<"host">>]}

\* The connections the tree shows: what list_connections loads from the files
TreeConnections(f) ==
    {r.conn : r \in {x \in {load_connection(f, k[1], k[2]) : k \in DOMAIN f} : x.res.ok}}

\* A .conf file written by hand into the store, without a User line
HandWrittenText ==
    <<"Host", SP, "B", NL>> \o Indent \o <<"HostName", SP, "host", NL>>

\* The store the GUI opens: the default folders, empty or with that file
InitGui ==
    /\ dirs = {BasePath} \cup DefaultFolders
    /\ files \in {<<>>, [k \in {FileKey(<<"work">>, <<"B">>)} |-> HandWrittenText]}
    /\ op = NoOp
    /\ IdleConn /\ IdleSsh /\ IdleInit /\ IdleWriters

GuiSaveNew ==
    \E connection \in GuiRecords :
        \E r \in {save_new_connection(dirs, files, connection)} :
            /\ Cardinality(DOMAIN r.files) <= MaxFiles
            /\ dirs' = r.dirs
            /\ files' = r.files
            /\ op' = [NoOp EXCEPT !.kind = "new", !.conn = connection, !.res = r.res]
            /\ UNCHANGED <<connVars, sshVars, initVars, writers>>

GuiEdit ==
    \E old_connection \in TreeConnections(files), new_connection \in GuiRecords :
        \E r \in {save_edited_connection(dirs, files, old_connection, new_connection)} :
            /\ dirs' = r.dirs
            /\ files' = r.files
            /\ op' = [NoOp EXCEPT !.kind = "edit", !.from = old_connection.folder,
                                  !.name = old_connection.name,
                                  !.conn = new_connection, !.res = r.res]
            /\ UNCHANGED <<connVars, sshVars, initVars, writers>>

\* Duplicate on a connection of the tree that is not itself a copy
GuiDuplicate ==
    \E connection \in {c \in TreeConnections(files) : Len(c.name) = 1} :
        \E r \in {duplicate_connection(dirs, files, connection)} :
            /\ Cardinality(DOMAIN r.files) <= MaxFiles + 1
            /\ dirs' = r.dirs
            /\ files' = r.files
            /\ op' = [NoOp EXCEPT !.kind = "duplicate", !.from = connection.folder,
                                  !.name = connection.name, !.conn = r.conn,
                                  !.res = r.res]
            /\ UNCHANGED <<connVars, sshVars, initVars, writers>>

NextGui ==
    \/ GuiSaveNew
    \/ GuiEdit
    \/ GuiDuplicate

SpecGui == InitGui /\ [][NextGui]_vars

\* ------------------- the alternate variant: backend/file_utils.py, ssh_manager.py

\* f"Include {self.ssh_manager_dir}/config/**/*.conf"
AltInclude == "Include <ssh_manager_dir>/config/**/*.conf"
\* f"Include {self.ssh_manager_dir}/config/*/*.conf", the old single-level pattern
AltOldInclude == "Include <ssh_manager_dir>/config/*/*.conf"
\* A line of the user's own that names a file below ssh_manager_dir
AltKeyLine == "IdentityFile <ssh_manager_dir>/keys/id_ed25519"

\* The atoms in which str(self.ssh_manager_dir) occurs.
ManagerDirAtoms == {AltInclude, AltOldInclude, AltKeyLine}

\* str.replace(old, new) for an old that is one atom
ReplaceAtom(t, old, new) == [i \in 1..Len(t) |-> IF t[i] = old THEN new ELSE t[i]]

\* FileUtils.update_main_ssh_config: [cfg, res]; writing needs ~/.ssh to exist
update_main_ssh_config(cfg, sshDirExists) ==
    LET existing_config == IF cfg.exists THEN cfg.content ELSE <<>>
    IN  IF \E i \in 1..Len(existing_config) : existing_config[i] \in ManagerDirAtoms
        THEN IF \E i \in 1..Len(existing_config) : existing_config[i] = AltOldInclude
             THEN [cfg |-> [exists |-> TRUE,
                            content |-> ReplaceAtom(existing_config, AltOldInclude,
                                                    AltInclude)],
                   res |-> OkResult]
             ELSE [cfg |-> cfg, res |-> OkResult]
        ELSE IF ~sshDirExists
        THEN [cfg |-> cfg, res |-> Raise("FileNotFoundError", <<>>)]
        ELSE [cfg |-> [exists |-> TRUE,
                       content |-> <<AltInclude, NL, NL>> \o existing_config],
              res |-> OkResult]

\* SSHManager.create_ssh_config_backup_if_needed around
\* FileUtils.create_ssh_config_backup: the backup file afterwards.  touch() raises
\* when ~/.ssh does not exist and the exception is swallowed with a warning.
create_ssh_config_backup_if_needed(cfg, bak, sshDirExists) ==
    IF bak.exists THEN bak
    ELSE IF cfg.exists THEN [exists |-> TRUE, content |-> cfg.content]
    ELSE IF sshDirExists THEN [exists |-> TRUE, content |-> <<>>]
    ELSE bak

\* FileUtils.ensure_directory_structure: the group directories afterwards
ensure_directory_structure(d) ==
    d \cup {BasePath, <<"personal">>, <<"work">>, <<"projects">>}

\* str.strip('/')
RECURSIVE StripSlashes(_)
StripSlashes(g) ==
    IF g # <<>> /\ Head(g) = SLASH THEN StripSlashes(Tail(g))
    ELSE IF g # <<>> /\ g[Len(g)] = SLASH THEN StripSlashes(SubSeq(g, 1, Len(g) - 1))
    ELSE g

\* FileUtils.parse_group_path / get_group_config_path: [ok, path]; ok = FALSE is
\* the ValueError for an empty group path
get_group_config_path(group_path) ==
    IF StripSlashes(group_path) = <<>> THEN [ok |-> FALSE, path |-> <<>>]
    ELSE [ok |-> TRUE, path |-> FolderPath(StripSlashes(group_path))]

\* FileUtils.revert_to_original_config: [cfg, res]
revert_to_original_config(cfg, bak) ==
    IF bak.exists
    THEN IF bak.content # <<>>
         THEN [cfg |-> [exists |-> TRUE, content |-> bak.content], res |-> OkResult]
         ELSE [cfg |-> NoFile, res |-> OkResult]
    ELSE [cfg |-> cfg, res |-> Raise("FileNotFoundError", <<>>)]

\* Templates.default_templates keys
TemplateNames == {"basic-server", "aws-ec2", "jump-host", "developer"}

\* The {placeholders} of each template's content
ConnectionSettingKeys ==
    {"server_alive_interval", "server_alive_count_max", "connect_timeout",
     "compression", "strict_host_key_checking"}
ControlKeys == {"control_master", "control_path", "control_persist"}
TemplatePlaceholders(template_name) ==
    {"name", "host", "user_line", "port", "key_file"} \cup
    (CASE template_name = "basic-server" ->
              ConnectionSettingKeys \cup ControlKeys \cup {"forward_x11", "forward_agent"}
       [] template_name = "aws-ec2" -> {}
       [] template_name = "jump-host" ->
              {"jump_host"} \cup ConnectionSettingKeys \cup ControlKeys
       [] template_name = "developer" ->
              {"local_forwards", "remote_forwards", "dynamic_forward"}
                  \cup ConnectionSettingKeys \cup ControlKeys
       [] OTHER -> {})

\* The keys of the template_variables dict add_connection builds
TemplateVariableKeys ==
    {"name", "host", "user_line", "port", "key_file", "jump_host",
     "forward_x11", "forward_agent", "local_forwards", "remote_forwards",
     "dynamic_forward"} \cup ConnectionSettingKeys \cup ControlKeys

\* template_variables of add_connection, with the defaults of the options that
\* are not given
template_variables(options) ==
    [k \in TemplateVariableKeys |->
        CASE k = "name" -> options.name
          [] k = "host" -> options.host
          [] k = "user_line" ->
                 IF options.user # <<>> THEN Indent \o <<"User", SP>> \o options.user
                 ELSE <<>>
          [] k = "port" -> <<"22">>
          [] OTHER -> <<"<default>">>]

\* Templates.get_template / create_from_template: [ok, err, content]; content is
\* content.format(**variables), everything after the Port line being one atom
create_from_template(template_name, variables) ==
    IF template_name \notin TemplateNames
    THEN [ok |-> FALSE, err |-> "Template not found", content |-> <<>>]
    ELSE IF ~(TemplatePlaceholders(template_name) \subseteq DOMAIN variables)
    THEN [ok |-> FALSE, err |-> "Missing template variable", content |-> <<>>]
    ELSE [ok |-> TRUE, err |-> "",
          content |-> <<"#", SP, template_name, NL, "Host", SP>> \o variables["name"]
                      \o <<NL>> \o Indent \o <<"HostName", SP>> \o variables["host"]
                      \o <<NL>> \o variables["user_line"]
                      \o <<NL>> \o Indent \o <<"Port", SP>> \o variables["port"]
                      \o <<NL>> \o Indent \o <<"<settings of>", SP, template_name, NL>>]

\* add_connection that writes the connection file before it fills the template
add_connection_write_first(d, f, cfg, sshDirExists, options) ==
    LET g == get_group_config_path(options.group)
        key == <<g.path, options.name>>
        t == create_from_template(options.template, template_variables(options))
        d2 == d \cup Ancestors(g.path)
        f2 == WriteFile(f, key, <<"# SSH Manager Icon: ", "icon", NL>> \o t.content)
        u == update_main_ssh_config(cfg, sshDirExists)
    IN  IF options.name = <<>> \/ options.host = <<>>
        THEN [dirs |-> d, files |-> f, cfg |-> cfg,
              res |-> Raise("ValueError", <<"Name and host are required">>)]
        ELSE IF ~g.ok
        THEN [dirs |-> d, files |-> f, cfg |-> cfg,
              res |-> Raise("ValueError", <<"Group path cannot be empty">>)]
        ELSE IF key \in DOMAIN f /\ f[key] # <<>>
        THEN [dirs |-> d, files |-> f, cfg |-> cfg,
              res |-> Raise("ValueError", <<"already exists">>)]
        ELSE IF ~t.ok
        THEN [dirs |-> d2, files |-> f2, cfg |-> cfg,
              res |-> Raise("ValueError", <<t.err>>)]
        ELSE [dirs |-> d2, files |-> f2, cfg |-> u.cfg, res |-> u.res]

\* SSHManager.add_connection: [dirs, files, cfg, res]
add_connection(d, f, cfg, sshDirExists, options) ==
    LET g == get_group_config_path(options.group)
        key == <<g.path, options.name>>
        t == create_from_template(options.template, template_variables(options))
        d2 == d \cup Ancestors(g.path)
        f2 == WriteFile(f, key, <<"# SSH Manager Icon: ", "icon", NL>> \o t.content)
        u == update_main_ssh_config(cfg, sshDirExists)
    IN  IF options.name = <<>> \/ options.host = <<>>
        THEN [dirs |-> d, files |-> f, cfg |-> cfg,
              res |-> Raise("ValueError", <<"Name and host are required">>)]
        ELSE IF ~g.ok
        THEN [dirs |-> d, files |-> f, cfg |-> cfg,
              res |-> Raise("ValueError", <<"Group path cannot be empty">>)]
        ELSE IF key \in DOMAIN f /\ f[key] # <<>>
        THEN [dirs |-> d, files |-> f, cfg |-> cfg,
              res |-> Raise("ValueError", <<"already exists">>)]
        ELSE IF ~t.ok
        THEN [dirs |-> d, files |-> f, cfg |-> cfg,
              res |-> Raise("ValueError", <<t.err>>)]
        ELSE [dirs |-> d2, files |-> f2, cfg |-> u.cfg, res |-> u.res]

\* SSHManager.remove_connection: [files, cfg, res]
remove_connection(f, cfg, sshDirExists, name, group) ==
    LET g == get_group_config_path(group)
        key == <<g.path, name>>
        u == update_main_ssh_config(cfg, sshDirExists)
    IN  IF ~g.ok THEN [files |-> f, cfg |-> cfg, res |-> Raise("ValueError", <<>>)]
        ELSE [files |-> IF key \in DOMAIN f THEN RemoveFile(f, key) ELSE f,
              cfg |-> u.cfg, res |-> u.res]

\* update_connection from "Remove old connection and add updated one" on: rm is
\* the outcome of remove_connection, options the merged connection_options
RemoveThenAdd(d, rm, sshDirExists, options) ==
    IF ~rm.res.ok
    THEN [dirs |-> d, files |-> rm.files, cfg |-> rm.cfg, res |-> rm.res]
    ELSE add_connection(d, rm.files, rm.cfg, sshDirExists, options)

\* connection_options of update_connection: name and group, then the updates
connection_options(name, group, updates) ==
    [name |-> name, group |-> group, host |-> updates.host, user |-> updates.user,
     template |-> updates.template]

\* The test "if not existing_config" on read_config_file(group, name)
HasConfig(f, key) == key \in DOMAIN f /\ f[key] # <<>>

\* SSHManager.update_connection: [dirs, files, cfg, res]
update_connection(d, f, cfg, sshDirExists, name, group, updates) ==
    IF ~get_group_config_path(group).ok
    THEN [dirs |-> d, files |-> f, cfg |-> cfg,
          res |-> Raise("ValueError", <<"Group path cannot be empty">>)]
    ELSE IF ~HasConfig(f, <<get_group_config_path(group).path, name>>)
    THEN [dirs |-> d, files |-> f, cfg |-> cfg,
          res |-> Raise("ValueError", <<"not found">>)]
    ELSE RemoveThenAdd(d, remove_connection(f, cfg, sshDirExists, name, group),
                       sshDirExists, connection_options(name, group, updates))

\* --------------------------------- SpecAlt: the alternate variant's operations

\* Lines a user's own ~/.ssh/config is made of, in the alternate variant.
AltUserLines == {<<"Host", SP, "A">>, <<AltOldInclude>>, <<AltKeyLine>>}

\* ~/.ssh/config before the first init: absent, empty, or up to MaxCfgLines user
\* lines, the last one with or without its newline.
AltStartConfigs ==
    {NoFile} \cup
    {[exists |-> TRUE, content |-> JoinNL(ls) \o tail] :
        ls \in SeqsUpTo(AltUserLines, MaxCfgLines), tail \in {<<>>, <<NL>>}}

\* The options add_connection is called with.
AltOptions ==
    {[name |-> <<"A">>, host |-> <<"10.0.0.5">>, user |-> <<"admin">>,
      group |-> <<"personal">>, template |-> "basic-server"],
     [name |-> <<"db1">>, host |-> <<"10.0.0.5">>, user |-> <<>>,
      group |-> <<"work", SLASH, "db">>, template |-> "jump-host"],
     [name |-> <<>>, host |-> <<"10.0.0.5">>, user |-> <<>>,
      group |-> <<"personal">>, template |-> "basic-server"],
     [name |-> <<"A">>, host |-> <<>>, user |-> <<>>,
      group |-> <<"personal">>, template |-> "basic-server"],
     [name |-> <<"A">>, host |-> <<"10.0.0.5">>, user |-> <<>>,
      group |-> <<"personal">>, template |-> "no-such-template"],
     [name |-> <<"A">>, host |-> <<"10.0.0.5">>, user |-> <<>>,
      group |-> <<SLASH>>, template |-> "basic-server"]}

AltGroups == {<<"personal">>, <<"work", SLASH, "db">>}

\* The options whose template_variables create_from_template is called with
AltVariableOptions ==
    {o \in AltOptions : o.name # <<>> /\ o.host # <<>> /\ o.user # <<>>}

\* The updates update_connection is called with: a new host and user, a new user
\* only (no 'host' key, options.get gives None), a template that does not exist
AltUpdates ==
    {[host |-> <<"10.0.0.9">>, user |-> <<"root">>, template |-> "basic-server"],
     [host |-> <<>>, user |-> <<"root">>, template |-> "basic-server"],
     [host |-> <<"10.0.0.9">>, user |-> <<>>, template |-> "no-such-template"]}

\* Keys a caller of create_from_template may leave out of its variables
AltMissingKeys == {"jump_host"}

\* Before the first call: no managed tree yet, or one in which the empty file
\* personal/A.conf has been put by hand
InitAlt ==
    /\ sshDir \in BOOLEAN
    /\ sshConfig \in AltStartConfigs
    /\ sshConfig.exists => sshDir
    /\ backup = NoFile
    /\ files \in {<<>>, [k \in {<<<<"personal">>, <<"A">>>>} |-> <<>>]}
    /\ dirs = IF files = <<>> THEN {} ELSE {BasePath, <<"personal">>}
    /\ result = NoResult
    /\ orig = sshConfig
    /\ initCalls = 0
    /\ op = NoOp
    /\ IdleConn /\ IdleWriters

\* SSHManager.init
AltInit ==
    /\ backup' = create_ssh_config_backup_if_needed(sshConfig, backup, sshDir)
    /\ dirs' = ensure_directory_structure(dirs)
    /\ sshDir' = TRUE
    /\ sshConfig' = update_main_ssh_config(sshConfig, TRUE).cfg
    /\ op' = [NoOp EXCEPT !.kind = "init"]
    /\ UNCHANGED <<connVars, initVars, files, writers>>

AltAddConnection ==
    \E options \in AltOptions :
        \E r \in {add_connection(dirs, files, sshConfig, sshDir, options)} :
            /\ Cardinality(DOMAIN r.files) <= MaxFiles
            /\ dirs' = r.dirs
            /\ files' = r.files
            /\ sshConfig' = r.cfg
            /\ op' = [NoOp EXCEPT !.kind = "add", !.name = options.name,
                                  !.folder = options.group, !.res = r.res,
                                  !.template = options.template]
            /\ UNCHANGED <<connVars, initVars, sshDir, backup, writers>>

AltRemoveConnection ==
    \E name \in StoreNames, group \in AltGroups :
        \E r \in {remove_connection(files, sshConfig, sshDir, name, group)} :
            /\ files' = r.files
            /\ sshConfig' = r.cfg
            /\ op' = [NoOp EXCEPT !.kind = "remove", !.name = name, !.folder = group,
                                  !.res = r.res]
            /\ UNCHANGED <<connVars, initVars, sshDir, backup, dirs, writers>>

\* The CLI's `remove` subcommand: init(), then remove_connection, with "except
\* Exception: print; sys.exit(1)" around both; res.ok is exit status 0
AltCliRemove ==
    \E name \in StoreNames, group \in AltGroups :
        \E r \in {remove_connection(files, update_main_ssh_config(sshConfig, TRUE).cfg,
                                    TRUE, name, group)} :
            /\ backup' = create_ssh_config_backup_if_needed(sshConfig, backup, sshDir)
            /\ dirs' = ensure_directory_structure(dirs)
            /\ sshDir' = TRUE
            /\ files' = r.files
            /\ sshConfig' = r.cfg
            /\ op' = [NoOp EXCEPT !.kind = "cli_remove", !.name = name,
                                  !.folder = group, !.res = r.res]
            /\ UNCHANGED <<connVars, initVars, writers>>

\* Templates.create_from_template called with a variables dict of its own
AltCreateFromTemplate ==
    \E template_name \in TemplateNames \cup {"no-such-template"},
       options \in AltVariableOptions, missing \in {{}, AltMissingKeys} :
        \E r \in {create_from_template(template_name,
                       [k \in TemplateVariableKeys \ missing |->
                           template_variables(options)[k]])} :
            /\ op' = [NoOp EXCEPT !.kind = "template", !.template = template_name,
                                  !.keys = TemplateVariableKeys \ missing,
                                  !.res = IF r.ok THEN OkResult
                                          ELSE Raise("ValueError", <<r.err>>),
                                  !.out = r.content]
            /\ UNCHANGED <<connVars, sshVars, initVars, dirs, files, writers>>

AltUpdateConnection ==
    \E name \in StoreNames, group \in AltGroups, updates \in AltUpdates :
        \E r \in {update_connection(dirs, files, sshConfig, sshDir, name, group,
                                    updates)} :
            /\ dirs' = r.dirs
            /\ files' = r.files
            /\ sshConfig' = r.cfg
            /\ op' = [NoOp EXCEPT !.kind = "update", !.name = name, !.folder = group,
                                  !.conn = [NoConn EXCEPT !.hostname = updates.host,
                                                          !.user = updates.user],
                                  !.template = updates.template, !.res = r.res]
            /\ UNCHANGED <<connVars, initVars, sshDir, backup, writers>>

\* SSHManager.revert_to_original_config
AltRevert ==
    \E r \in {revert_to_original_config(sshConfig, backup)} :
        /\ sshConfig' = r.cfg
        /\ op' = [NoOp EXCEPT !.kind = "revert", !.res = r.res]
        /\ UNCHANGED <<connVars, initVars, sshDir, backup, dirs, files, writers>>

NextAlt ==
    \/ AltInit
    \/ AltAddConnection
    \/ AltRemoveConnection
    \/ AltCliRemove
    \/ AltUpdateConnection
    \/ AltCreateFromTemplate
    \/ AltRevert

SpecAlt == InitAlt /\ [][NextAlt]_vars

\* ------------------------------------------------------------------ claims

\* C1: after n >= 1 consecutive calls of initialize(), whatever the primary SSH
\* config was at the start (absent, present without the Include line, present with
\* it), the config holds exactly one line "Include <base_path>/**/*.conf".
C1_ExactlyOneIncludeLine ==
    initCalls >= 1 => (sshConfig.exists /\ IncludeLineCount(sshConfig.content) = 1)

\* C2: initialize() is idempotent: a call that follows another call leaves the
\* managed tree, the primary SSH config and the backup file unchanged and reports
\* created_dirs, created_backup and added_include all False.
C2_InitializeIdempotent ==
    [][initCalls >= 1 =>
         /\ dirs' = dirs /\ files' = files
         /\ sshConfig' = sshConfig
         /\ backup' = backup
         /\ ~result'.created_dirs /\ ~result'.created_backup /\ ~result'.added_include]_vars

\* C3: whenever the backup file exists, its content is the primary config as it was
\* before the manager first wrote to it (so it never holds the manager's Include
\* line), and no later initialize() call changes the backup.
C3_BackupIsOriginal ==
    backup.exists =>
        /\ orig.exists
        /\ backup.content = orig.content

\* The record invariants of the data model: name non-empty and made of letters,
\* digits, dash and underscore only; hostname non-empty; 1 <= port <= 65535; folder
\* without ".." and without a leading "/".
RecordInvariants(r) ==
    /\ r.name # <<>> /\ \A i \in 1..Len(r.name) : r.name[i] \in WordAtoms
    /\ r.hostname # <<>>
    /\ 1 <= r.port /\ r.port <= 65535
    /\ ~Contains(r.folder, <<"..">>) /\ ~StartsWith(r.folder, <<"/">>)

\* C4: for every Connection r that satisfies the record invariants,
\* from_ssh_config(r.to_ssh_config(), name=r.name, folder=r.folder) equals r in
\* every field.
C4_RoundTrip ==
    ("parsed" \in cpc /\ RecordInvariants(rec)) => (parsed.ok /\ parsed.conn = rec)

ErrorSet(errs) == {errs[i] : i \in 1..Len(errs)}

\* C6: validate() gives a port-range error for port 0 and port 70000, a folder-path
\* error for a folder that contains ".." or starts with "/", and a name-pattern
\* error for a name with a character outside letters, digits, dash and underscore.
C6_ValidateRejects ==
    "validated" \in cpc =>
        /\ rec.port \in {0, 70000} => ErrPort \in ErrorSet(errors)
        /\ (Contains(rec.folder, <<"..">>) \/ StartsWith(rec.folder, <<"/">>))
              => ErrFolder \in ErrorSet(errors)
        /\ (\E i \in 1..Len(rec.name) : rec.name[i] \notin WordAtoms)
              => ErrNamePattern \in ErrorSet(errors)

\* C5: for every valid record r, after save_connection(r) the file
\* <base>/<r.folder>/<r.name>.conf exists and load_connection(r.folder, r.name)
\* returns a record equal to r, whatever store operations came before.
C5_SaveThenLoad ==
    (op.kind = "save" /\ validate(op.conn) = <<>>) =>
        /\ op.res.ok
        /\ FileKey(op.conn.folder, op.conn.name) \in DOMAIN files
        /\ load_connection(files, op.conn.folder, op.conn.name)
               = [res |-> OkResult, conn |-> op.conn]

\* The rules of validation a record breaks, by what each rule says.
ViolatedRules(r) ==
    (IF r.name = <<>> THEN {ErrNameRequired} ELSE {})
    \cup (IF \E i \in 1..Len(r.name) : r.name[i] \notin WordAtoms
          THEN {ErrNamePattern} ELSE {})
    \cup (IF r.hostname = <<>> THEN {ErrHostname} ELSE {})
    \cup (IF r.user = <<>> THEN {ErrUsername} ELSE {})
    \cup (IF r.port < 1 \/ r.port > 65535 THEN {ErrPort} ELSE {})
    \cup (IF Contains(r.folder, <<"..">>) \/ StartsWith(r.folder, <<SLASH>>)
          THEN {ErrFolder} ELSE {})

\* C7: save_connection on a record that breaks any validation rule fails with a
\* validation error that lists every rule broken, and writes nothing: no file is
\* created or changed and no folder is created.
C7_InvalidSaveWritesNothing ==
    [][(op'.kind = "save" /\ ViolatedRules(op'.conn) # {}) =>
         /\ ~op'.res.ok /\ op'.res.err = "ValueError"
         /\ ErrorSet(op'.res.errors) = ViolatedRules(op'.conn)
         /\ dirs' = dirs /\ files' = files]_vars

\* Whether path x is folder p or lies in the subtree of p.
InSubtree(x, p) ==
    \/ x = p
    \/ Len(x) > Len(p) /\ SubSeq(x, 1, Len(p)) = p /\ (p = <<>> \/ x[Len(p) + 1] = SLASH)

\* C8: delete_folder(p, recursive=False) on a folder that holds a file or a
\* sub-folder fails and leaves everything unchanged; delete_folder(p,
\* recursive=True) removes p and its whole subtree and nothing outside it;
\* delete_folder on a folder that does not exist fails with a not-found error.
C8_DeleteFolderSafety ==
    [][op'.kind = "delete_folder" =>
         LET p == FolderPath(op'.folder)
             nonEmpty == (\E k \in DOMAIN files : k[1] = p)
                            \/ (\E x \in dirs : x # p /\ InSubtree(x, p))
         IN  /\ p \notin dirs =>
                   /\ ~op'.res.ok /\ op'.res.err = "FileNotFoundError"
                   /\ dirs' = dirs /\ files' = files
             /\ (p \in dirs /\ ~op'.recursive /\ nonEmpty) =>
                   /\ ~op'.res.ok
                   /\ dirs' = dirs /\ files' = files
             /\ (p \in dirs /\ op'.recursive) =>
                   /\ op'.res.ok
                   /\ dirs' = {x \in dirs : ~InSubtree(x, p)}
                   /\ DOMAIN files' = {k \in DOMAIN files : ~InSubtree(k[1], p)}
                   /\ \A k \in DOMAIN files' : files'[k] = files[k]]_vars

\* C8 witness: a non-recursive delete of a folder that still holds a file or a
\* sub-folder was refused.
C8_Witness ==
    /\ op.kind = "delete_folder" /\ ~op.recursive
    /\ ~op.res.ok /\ op.res.err = "ValueError"
    /\ FolderPath(op.folder) \in dirs
    /\ \/ \E k \in DOMAIN files : k[1] = FolderPath(op.folder)
       \/ \E x \in dirs : x # FolderPath(op.folder) /\ InSubtree(x, FolderPath(op.folder))

\* C9: move_connection(conn, new_folder) fails when <new_folder>/<conn.name>.conf
\* already exists or when the source file is missing, and then the source file, the
\* destination file, the set of folders and conn.folder are all unchanged.
C9_MoveConflict ==
    [][op'.kind = "move" =>
         LET src == <<FolderPath(op'.from), op'.conn.name>>
             dst == <<FolderPath(op'.folder), op'.conn.name>>
         IN  (src \notin DOMAIN files \/ dst \in DOMAIN files) =>
                 /\ ~op'.res.ok
                 /\ dirs' = dirs /\ files' = files
                 /\ op'.conn.folder = op'.from]_vars

\* C9 witness: a move was refused while both the source file and a file of the
\* same name in another folder, the destination, exist.
C9_Witness ==
    /\ op.kind = "move" /\ ~op.res.ok /\ op.res.err = "ValueError"
    /\ FolderPath(op.from) # FolderPath(op.folder)
    /\ <<FolderPath(op.from), op.conn.name>> \in DOMAIN files
    /\ <<FolderPath(op.folder), op.conn.name>> \in DOMAIN files

\* C10: when the source file exists and no file of that name exists at the
\* destination, move_connection creates the destination folder if missing, the file
\* is then at <new_folder>/<name>.conf with the content it had at the source and no
\* longer at the source, conn.folder equals new_folder, and every other connection
\* file is unchanged.
C10_MoveSuccess ==
    [][op'.kind = "move" =>
         LET src == <<FolderPath(op'.from), op'.conn.name>>
             dst == <<FolderPath(op'.folder), op'.conn.name>>
         IN  (src \in DOMAIN files /\ dst \notin DOMAIN files) =>
                 /\ op'.res.ok
                 /\ FolderPath(op'.folder) \in dirs' /\ dirs \subseteq dirs'
                 /\ dst \in DOMAIN files' /\ files'[dst] = files[src]
                 /\ src \notin DOMAIN files'
                 /\ op'.conn.folder = op'.folder
                 /\ DOMAIN files' = (DOMAIN files \ {src}) \cup {dst}
                 /\ \A k \in DOMAIN files \ {src} : files'[k] = files[k]]_vars

\* C10 witness: a move succeeded, the file is at the destination and not at the
\* source, and another connection file exists beside it.
C10_Witness ==
    /\ op.kind = "move" /\ op.res.ok
    /\ <<FolderPath(op.folder), op.conn.name>> \in DOMAIN files
    /\ <<FolderPath(op.from), op.conn.name>> \notin DOMAIN files
    /\ Cardinality(DOMAIN files) >= 2

\* C11: load_connection and delete_connection on a (folder, name) whose file is
\* absent fail with a not-found error and change nothing; delete_connection on an
\* existing file removes exactly that file, after which connection_exists is False
\* and load_connection fails, and every other file is unchanged.
C11_NotFoundAndDelete ==
    [][LET k == <<FolderPath(op'.folder), op'.name>>
       IN  /\ (op'.kind = "load" /\ k \notin DOMAIN files) =>
                 /\ ~op'.res.ok /\ op'.res.err = "FileNotFoundError"
                 /\ dirs' = dirs /\ files' = files
           /\ (op'.kind = "delete" /\ k \notin DOMAIN files) =>
                 /\ ~op'.res.ok /\ op'.res.err = "FileNotFoundError"
                 /\ dirs' = dirs /\ files' = files
           /\ (op'.kind = "delete" /\ k \in DOMAIN files) =>
                 /\ op'.res.ok
                 /\ dirs' = dirs
                 /\ DOMAIN files' = DOMAIN files \ {k}
                 /\ \A j \in DOMAIN files' : files'[j] = files[j]
                 /\ ~connection_exists(files', op'.folder, op'.name)
                 /\ load_connection(files', op'.folder, op'.name).res
                        = Raise("FileNotFoundError", <<>>)]_vars

\* C11 witness: a delete removed its file while another connection file stays.
C11_Witness ==
    /\ op.kind = "delete" /\ op.res.ok
    /\ <<FolderPath(op.folder), op.name>> \notin DOMAIN files
    /\ files # <<>>

\* The .conf files list_connections(folder) walks over: those directly in the
\* folder, or every file when no folder is given.
ListScope(folder) ==
    IF folder = <<>> THEN DOMAIN files
    ELSE {k \in DOMAIN files : k[1] = FolderPath(folder)}

\* Whether the content of file k parses (no exception from from_ssh_config).
Parses(k) == from_ssh_config(files[k], k[2], k[1]).ok

\* C12: list_connections never fails because of one bad file: for any mix of
\* well-formed and malformed .conf files it returns one record for every file that
\* parses and skips the others, and for a folder without .conf files, or one that
\* does not exist, it returns an empty list and no error.
C12_ListNeverFails ==
    op.kind = "list" =>
        /\ op.res.ok
        /\ Len(op.out) = Cardinality({k \in ListScope(op.folder) : Parses(k)})
        /\ \A k \in ListScope(op.folder) :
              Parses(k) => \E i \in 1..Len(op.out) : op.out[i].name = k[2]
        /\ ListScope(op.folder) = {} => op.out = <<>>

\* C12 witness: a listing walked over a file that does not parse and a file that
\* does, and returned the one record.
C12_Witness ==
    /\ op.kind = "list" /\ op.res.ok /\ Len(op.out) = 1
    /\ \E k \in ListScope(op.folder) : ~Parses(k)
    /\ \E k \in ListScope(op.folder) : Parses(k)

\* C13: with a folder argument list_connections returns exactly the connections
\* whose .conf file lies directly in that folder, none from its sub-folders;
\* without an argument it returns exactly the connections of every .conf file under
\* the base directory, each with folder equal to its directory's path relative to
\* the base ("." for the base directory itself).
C13_ListScope ==
    op.kind = "list" =>
        LET expected ==
                IF op.folder # <<>>
                THEN {<<op.folder, k[2]>> :
                        k \in {j \in DOMAIN files : j[1] = FolderPath(op.folder) /\ Parses(j)}}
                ELSE {<<IF k[1] = <<>> THEN <<".">> ELSE k[1], k[2]>> :
                        k \in {j \in DOMAIN files : Parses(j)}}
        IN  /\ {<<op.out[i].folder, op.out[i].name>> : i \in 1..Len(op.out)} = expected
            /\ Len(op.out) = Cardinality(expected)

\* C13 witness: a listing of a folder that holds a connection and has a sub-folder
\* holding another returned the one connection.
C13_Witness ==
    /\ op.kind = "list" /\ op.folder = <<"work">> /\ Len(op.out) = 1
    /\ \E k \in DOMAIN files : k[1] = <<"work">> /\ Parses(k)
    /\ \E k \in DOMAIN files : k[1] = <<"work", SLASH, "db">> /\ Parses(k)

\* C14: revert_to_original_config fails and changes nothing when no backup exists;
\* otherwise, after any sequence of init / add_connection / remove_connection calls
\* followed by revert, the primary SSH config is exactly what it was before the
\* first init: the same content if an original file existed, absent if none did.
C14_RevertRestoresOriginal ==
    [][op'.kind = "revert" =>
         IF backup.exists
         THEN op'.res.ok /\ sshConfig' = orig
         ELSE ~op'.res.ok /\ sshConfig' = sshConfig /\ backup' = backup]_vars

\* C20: SSHManager.remove_connection(name, group) for an absent
\* <group>/<name>.conf raises a not-found error, the CLI remove subcommand then
\* exits with a non-zero status, and no file is changed.
C20_RemoveAbsentFails ==
    [][(op'.kind \in {"remove", "cli_remove"}
          /\ <<FolderPath(op'.folder), op'.name>> \notin DOMAIN files) =>
         /\ ~op'.res.ok /\ op'.res.err = "FileNotFoundError"
         /\ files' = files]_vars

\* C15: the user field is optional: a record with an empty user and otherwise
\* valid fields passes validate() with no error and save_connection writes it.
C15_UserOptional ==
    (op.kind = "save" /\ op.conn.user = <<>> /\ RecordInvariants(op.conn)) =>
        /\ validate(op.conn) = <<>>
        /\ op.res.ok
        /\ FileKey(op.conn.folder, op.conn.name) \in DOMAIN files

\* The atoms of t other than newlines.
NonNewline(t) ==
    LET IsText(a) == a # NL
    IN  SelectSeq(t, IsText)

\* C16: initialize() on a pre-existing primary SSH config keeps the old content
\* unchanged and in order as a prefix of the new content, the only additions being
\* the manager's comment line and the Include line appended at the end; when the
\* Include line is already present the file is not written at all.
C16_InitKeepsUserContent ==
    [][sshConfig.exists =>
         LET old == sshConfig.content
             new == sshConfig'.content
         IN  /\ sshConfig'.exists
             /\ Len(new) >= Len(old)
             /\ SubSeq(new, 1, Len(old)) = old
             /\ NonNewline(SubSeq(new, Len(old) + 1, Len(new)))
                    \in {<<>>, <<ManagerComment, IncludeLine>>}
             /\ IncludeLineCount(old) >= 1 => new = old]_vars

\* C16 witness: initialize() ran on a config that held lines of the user's and now
\* holds them followed by the Include line.
C16_Witness ==
    /\ initCalls >= 1 /\ orig.exists /\ orig.content # <<>>
    /\ sshConfig.content # orig.content
    /\ SubSeq(sshConfig.content, 1, Len(orig.content)) = orig.content
    /\ IncludeLineCount(sshConfig.content) = 1

\* The text the format rules describe for record r.
FormatLines(r) ==
    (IF r.color_tag # <<>>
     THEN << <<MetaPrefix>> \o JsonDumpsColor(r.color_tag), <<>> >> ELSE <<>>)
    \o << <<"Host", SP>> \o r.name >>
    \o << <<SP, SP, SP, SP, "HostName", SP>> \o r.hostname >>
    \o (IF r.user # <<>> THEN << <<SP, SP, SP, SP, "User", SP>> \o r.user >> ELSE <<>>)
    \o << <<SP, SP, SP, SP, "Port", SP>> \o IntStr(r.port) >>
    \o (IF r.identity_file # <<>>
        THEN << <<SP, SP, SP, SP, "IdentityFile", SP>> \o r.identity_file >> ELSE <<>>)
    \o (IF r.proxy_jump # <<>>
        THEN << <<SP, SP, SP, SP, "ProxyJump", SP>> \o r.proxy_jump >> ELSE <<>>)
    \o [i \in 1..Len(r.local_forwards) |->
          <<SP, SP, SP, SP, "LocalForward", SP>> \o IntStr(r.local_forwards[i][1])
             \o <<SP>> \o r.local_forwards[i][2] \o <<":">>
             \o IntStr(r.local_forwards[i][3])]
    \o [i \in 1..Len(r.remote_forwards) |->
          <<SP, SP, SP, SP, "RemoteForward", SP>> \o IntStr(r.remote_forwards[i][1])
             \o <<SP>> \o r.remote_forwards[i][2] \o <<":">>
             \o IntStr(r.remote_forwards[i][3])]
    \o << <<SP, SP, SP, SP, "ServerAliveInterval", SP, "60">>,
          <<SP, SP, SP, SP, "ServerAliveCountMax", SP, "3">>,
          <<SP, SP, SP, SP, "ConnectTimeout", SP, "10">> >>

\* C17: to_ssh_config() gives, in this order, the metadata comment and a blank line
\* exactly when color_tag is non-empty, Host, HostName, a User line exactly when
\* user is non-empty, Port, IdentityFile and ProxyJump exactly when non-empty, one
\* LocalForward line per local forward, one RemoteForward line per remote forward,
\* and last the three keep-alive lines; every directive line is indented by 4 spaces.
C17_Format ==
    "serialized" \in cpc => text = JoinNL(FormatLines(rec)) \o <<NL>>

\* C18: get_folder_tree() mirrors the filesystem: after any sequence of save /
\* delete / move / create_folder / delete_folder operations the tree has a node for
\* every folder list_folders() returns, and each node's connection list holds
\* exactly the base-names of the .conf files directly inside that folder, each once.
C18_TreeMirrorsFolders ==
    op.kind = "tree" =>
        /\ \A x \in list_folders(dirs) : Parts(x) \in DOMAIN op.out.nodes
        /\ \A p \in DOMAIN op.out.nodes :
              LET here == {k[2] : k \in {j \in DOMAIN files : Parts(j[1]) = p}}
                  conns == op.out.nodes[p]
              IN  /\ {conns[i] : i \in 1..Len(conns)} = here
                  /\ Len(conns) = Cardinality(here)

\* C19: saving a valid record r2 when <folder>/<name>.conf already holds another
\* record r1 succeeds, after which load returns r2; every other connection file
\* and the primary SSH config are unchanged by any save.
C19_SaveOverwrites ==
    [][op'.kind = "save" =>
         LET k == <<FolderPath(op'.conn.folder), op'.conn.name>>
         IN  /\ \A j \in DOMAIN files \ {k} : j \in DOMAIN files' /\ files'[j] = files[j]
             /\ DOMAIN files' \subseteq DOMAIN files \cup {k}
             /\ sshConfig' = sshConfig /\ backup' = backup
             /\ validate(op'.conn) = <<>> =>
                   /\ op'.res.ok
                   /\ load_connection(files', op'.conn.folder, op'.conn.name)
                          = [res |-> OkResult, conn |-> op'.conn]]_vars

\* The number of lines "Include <ssh_manager_dir>/config/**/*.conf" in a config
AltIncludeCount(t) == Cardinality({i \in 1..Len(t) : t[i] = AltInclude})

\* A config without its Include lines for the managed tree, new or legacy
AltUserPart(t) == SelectSeq(t, LAMBDA a : a \notin {AltInclude, AltOldInclude})

\* C21: in the alternate variant, whatever the primary SSH config was at the
\* start, after a successful init, add_connection or remove_connection the config
\* holds exactly one line "Include <ssh_manager_dir>/config/**/*.conf" and no
\* legacy single-level Include line, and the user's other lines are still there,
\* at the end of the file.
C21_AltExactlyOneInclude ==
    (op.kind \in {"init", "add", "remove", "cli_remove"} /\ op.res.ok /\ sshDir) =>
        /\ sshConfig.exists
        /\ AltIncludeCount(sshConfig.content) = 1
        /\ \A i \in 1..Len(sshConfig.content) : sshConfig.content[i] # AltOldInclude
        /\ LET u == AltUserPart(orig.content)
               v == AltUserPart(sshConfig.content)
           IN  Len(u) <= Len(v) /\ SubSeq(v, Len(v) - Len(u) + 1, Len(v)) = u

\* C22: create_from_template succeeds exactly when the template is in the catalog
\* and every placeholder of its content has a variable; an add_connection that
\* fails because name or host is missing, the template is unknown or a variable is
\* missing writes no connection file and leaves the store, the primary SSH config
\* and the backup as they were.
C22_TemplateErrors ==
    [][/\ op'.kind = "template" =>
             (op'.res.ok <=> /\ op'.template \in TemplateNames
                             /\ TemplatePlaceholders(op'.template) \subseteq op'.keys)
       /\ (op'.kind = "add" /\ ~op'.res.ok
             /\ op'.res.errors \in {<<"Name and host are required">>,
                                    <<"Template not found">>,
                                    <<"Missing template variable">>})
            => UNCHANGED <<files, dirs, sshConfig, backup>>]_vars

C22_Witness ==
    /\ op.kind = "add" /\ op.res.errors = <<"Template not found">>
    /\ DOMAIN files # {} /\ sshConfig.exists

\* C23: two store instances interleave their saves on one base directory.  A save
\* of a valid record is never refused, whether the file is already there or the
\* other instance is writing it, also when the file appeared after the GUI's
\* connection_exists test; and once an instance has written, the file holds
\* exactly the serialization of the record it saved.
C23_LastWriterWins ==
    [][/\ (op'.kind = "open" /\ validate(op'.conn) = <<>>) => op'.res.ok
       /\ op'.kind = "write" =>
             files'[FileKey(op'.conn.folder, op'.conn.name)] = to_ssh_config(op'.conn)
      ]_vars

\* The lines of a content that from_ssh_config takes as Host lines: stripped, not
\* a comment, starting with "Host "
HostLines(content) ==
    SelectSeq([i \in 1..Len(Split(content, <<NL>>)) |-> Strip(Split(content, <<NL>>)[i])],
              LAMBDA l : StartsWith(l, <<"Host", SP>>) /\ l[1] \notin HashAtoms)

\* The alias of a Host line: what follows the keyword
HostAlias(l) == Strip(SubSeq(l, 3, Len(l)))

\* C24: from_ssh_config returns the name it was passed when that is non-empty;
\* without one it returns the alias of the first Host line of the content,
\* whatever Host lines follow, and "unnamed" when there is none.  A record that
\* load_connection returns has the file's base-name as its name.
C24_NamePrecedence ==
    /\ "parsed" \in cpc =>
          parsed.conn.name =
              IF op.name # <<>> THEN op.name
              ELSE IF HostLines(text) # <<>> THEN HostAlias(HostLines(text)[1])
              ELSE <<"unnamed">>
    /\ (op.kind = "load" /\ op.res.ok) => op.conn.name = op.name

\* C25: whatever folder arguments save_connection, move_connection, create_folder,
\* delete_connection and delete_folder are called with, every folder and file of
\* the store lies under the base directory, and an operation that writes
\* (save_connection, move_connection, create_folder) fails when its folder
\* argument contains ".." or starts with "/".
C25_Containment ==
    /\ \A x \in dirs : ~Outside(x)
    /\ \A k \in DOMAIN files : ~Outside(k[1])
    /\ (/\ op.kind \in {"save", "move", "create_folder"}
        /\ (Contains(op.folder, <<"..">>) \/ StartsWith(op.folder, <<SLASH>>)))
       => ~op.res.ok

\* C26: when save_edited_connection changes a connection's name or folder and
\* another connection's file is at the new place, the edit is refused and no file
\* changes; and after any edit either the new record's file is on disk and, when
\* the place changed, the old file is gone, or no file has changed.
C26_EditKeepsOthers ==
    [][op'.kind = "edit" =>
          LET old == FileKey(op'.from, op'.name)
              new == FileKey(op'.conn.folder, op'.conn.name)
          IN  /\ (old # new /\ new \in DOMAIN files) =>
                    (~op'.res.ok /\ files' = files)
              /\ \/ files' = files
                 \/ /\ new \in DOMAIN files'
                    /\ files'[new] = to_ssh_config(op'.conn)
                    /\ old # new => old \notin DOMAIN files'
      ]_vars

\* The i-th name duplicate_connection tries for a connection called n
CopyCandidate(n, i) ==
    IF i = 0 THEN n \o <<"-copy">> ELSE n \o <<"-copy", ToString(i)>>

\* C29: duplicate_connection ends and succeeds; the copy's name is the first of
\* <name>-copy, <name>-copy1, <name>-copy2, ... that is not in the connection's
\* folder; exactly that one file is added, it holds the original's fields under
\* the new name, and every file that was there keeps its content.
C29_DuplicateFreshName ==
    [][op'.kind = "duplicate" =>
          LET new == FileKey(op'.from, op'.conn.name)
          IN  /\ op'.res.ok
              /\ \E i \in 0..Cardinality(DOMAIN files) :
                    /\ op'.conn.name = CopyCandidate(op'.name, i)
                    /\ \A j \in 0..(i - 1) :
                          FileKey(op'.from, CopyCandidate(op'.name, j)) \in DOMAIN files
              /\ new \notin DOMAIN files
              /\ DOMAIN files' = DOMAIN files \cup {new}
              /\ files'[new] = to_ssh_config(op'.conn)
              /\ op'.conn = [load_connection(files, op'.from, op'.name).conn
                                EXCEPT !.name = op'.conn.name]
              /\ \A k \in DOMAIN files : files'[k] = files[k]
      ]_vars

\* C27: update_connection on an existing connection either succeeds and leaves
\* the file of (group, name) with the content made from the updates, or fails and
\* leaves every file as it was; on a connection that does not exist it fails and
\* changes neither the files, the folders nor the primary SSH config.
C27_UpdateAllOrNothing ==
    [][op'.kind = "update" =>
          LET key == <<get_group_config_path(op'.folder).path, op'.name>>
              updates == [host |-> op'.conn.hostname, user |-> op'.conn.user,
                          template |-> op'.template]
              options == connection_options(op'.name, op'.folder, updates)
          IN  IF key \in DOMAIN files
              THEN \/ /\ op'.res.ok
                      /\ DOMAIN files' = DOMAIN files
                      /\ files'[key] =
                             <<"# SSH Manager Icon: ", "icon", NL>>
                                 \o create_from_template(
                                        options.template,
                                        template_variables(options)).content
                      /\ \A k \in DOMAIN files \ {key} : files'[k] = files[k]
                   \/ ~op'.res.ok /\ files' = files
              ELSE ~op'.res.ok /\ UNCHANGED <<files, dirs, sshConfig>>
      ]_vars

\* C28: add_connection on a (group, name) whose file exists, whatever the file
\* holds, fails with the already-exists error and leaves every file as it was.
C28_AddNeverOverwrites ==
    [][(/\ op'.kind = "add"
        /\ get_group_config_path(op'.folder).ok
        /\ op'.name # <<>>
        /\ <<get_group_config_path(op'.folder).path, op'.name>> \in DOMAIN files)
       => (/\ ~op'.res.ok
           /\ op'.res.errors \in {<<"already exists">>, <<"Name and host are required">>}
           /\ files' = files)]_vars

\* The sum of the values of a dict whose values are numbers
RECURSIVE SumValues(_)
SumValues(m) ==
    IF DOMAIN m = {} THEN 0
    ELSE LET k == CHOOSE x \in DOMAIN m : TRUE
         IN  m[k] + SumValues([j \in DOMAIN m \ {k} |-> m[j]])

\* C30: in every store state, also one with .conf files that do not parse, the
\* dict get_stats returns has total_connections equal to the sum of the values of
\* connections_by_folder and to the length of list_connections(), and
\* total_folders equal to the length of list_folders().
C30_StatsConsistent ==
    op.kind = "stats" =>
        LET stats == op.out[1]
        IN  /\ stats.total_connections = SumValues(stats.connections_by_folder)
            /\ \A order \in Orders(DOMAIN files) :
                  stats.total_connections
                      = Len(list_connections(dirs, files, <<>>, order).out)
            /\ stats.total_folders = Cardinality(list_folders(dirs))

====
